---- MODULE Spec2Model ----
(***************************************************************************)
(* A model of the RCON client of factorio-http-controls:                   *)
(*   - the packet codec (buildPacket / parsePacket),                       *)
(*   - the response handler (RconResponseHandler),                         *)
(*   - RconService.executeCommand (one socket per command),                *)
(*   - FactorioRconService (one shared rcon-client, retry, save swap).     *)
(* Text is a sequence of UTF-16 code units, a buffer a sequence of bytes.  *)
(***************************************************************************)
EXTENDS Integers, Sequences, FiniteSets, TLC

\* ------------------------------------------------------------------ bounds
MaxBodyLen == 2
MaxReplyBody == 2
NumCalls == 2
NumProcs == 2
MaxOps == 2
MaxPolls == 1
MaxIds == 4
MaxFiles == 3
MaxMtime == 3
IdWindow == 30

\* ------------------------------------------------------- program constants
SERVER_DATA_AUTH == 3
SERVER_DATA_EXEC_COMMAND == 2
SERVER_DATA_RESPONSE_VALUE == 0
ProbeBudgetS == 60
ProbeSleepS == 2
MaxInt32 == 2147483647
AuthFailedId == -1
MinHeader == 12
SizeFieldLen == 4
RetryDelayUnitMs == 1000
DefaultMaxRetries == 3
maxAttempts == 30
delayMs == 2000
SettleDelayMs == 5000
LaunchDelayMs == 2000

VARIABLES
  unit,        \* which component the behaviour exercises
  \* --- codec
  cIn,         \* the (id, type, body) handed to buildPacket
  cBytes,      \* the buffer buildPacket returned
  cOut,        \* what parsePacket decoded from cBytes
  cPhase,      \* "input" | "built" | "decoded" | "off"
  \* --- one response handler on one socket
  hState,      \* the handler's fields and its listeners on the socket
  hReply,      \* the bytes the peer sends in all
  hWire,       \* the bytes the peer has not delivered yet
  hChunks,     \* how many times handleData has run
  hResolves,   \* the packets resolve() was called with, in order
  hRejects,    \* the errors reject() was called with, in order
  \* --- RconService: call c of executeCommand owns socket c
  requestId,   \* RconService.requestId
  rPc,         \* where call c stands: idle, connecting, authWait, cmdWait, done
  rCommand,    \* the command of call c
  rHandler,    \* the response handler listening on socket c
  rWire,       \* bytes the peer has sent on socket c and not yet delivered
  rWritten,    \* the packets written to socket c, in order
  rDestroyed,  \* socket c is destroyed
  rAuthReply,  \* the packet the AUTH request of call c resolved with, if any
  rFailPhase,  \* the step of call c that failed: none, connect, auth, command
  rCaught,     \* the error caught by executeCommand, if any
  rResult,     \* what executeCommand returned, if it has
  rThrown,     \* what executeCommand threw, if it has
  idLog,       \* the ids getNextRequestId has handed out, when followed
  \* --- FactorioRconService
  svc,         \* the service's fields: rconClient (0: undefined), isConnected, maxRetries
  cl,          \* the rcon-client objects: state, the server process they reached
  pr,          \* the calls in progress: one per caller p
  env,         \* the server process and the save directory
  \* --- listSaves over one directory
  lsDir,       \* the entries of /factorio/saves in readdir's order: file, size, mtime
  lsPc,        \* where the call stands: readdir, stat, done, or off
  lsFiles,     \* saveFiles: the names kept by the filter
  lsOut,       \* what listSaves returned or threw
  \* --- the container's startup script
  sh           \* the shell's position and variables, its children, the RCON port

codecVars == <<cIn, cBytes, cOut, cPhase>>
handlerVars == <<hState, hReply, hWire, hChunks, hResolves, hRejects>>
rconVars == <<requestId, rPc, rCommand, rHandler, rWire, rWritten, rDestroyed,
              rAuthReply, rFailPhase, rCaught, rResult, rThrown, idLog>>
factVars == <<svc, cl, pr, env>>
listVars == <<lsDir, lsPc, lsFiles, lsOut>>
vars == <<unit, codecVars, handlerVars, rconVars, factVars, listVars, sh>>

\* ------------------------------------------------------------ sequences
RECURSIVE SeqsUpTo(_, _)
SeqsUpTo(S, n) ==
  IF n = 0 THEN {<<>>}
  ELSE LET shorter == SeqsUpTo(S, n - 1)
       IN shorter \cup {Append(s, x) : s \in {t \in shorter : Len(t) = n - 1}, x \in S}

Min(a, b) == IF a < b THEN a ELSE b
Max(a, b) == IF a > b THEN a ELSE b

\* ------------------------------------------------------------ UTF-8
IsHighSurrogate(u) == u >= 55296 /\ u <= 56319
IsLowSurrogate(u) == u >= 56320 /\ u <= 57343
IsSurrogate(u) == u >= 55296 /\ u <= 57343

\* The UTF-8 bytes of one code point.
EncodeCodePoint(cp) ==
  IF cp < 128 THEN <<cp>>
  ELSE IF cp < 2048 THEN <<192 + (cp \div 64), 128 + (cp % 64)>>
  ELSE IF cp < 65536
    THEN <<224 + (cp \div 4096), 128 + ((cp \div 64) % 64), 128 + (cp % 64)>>
  ELSE <<240 + (cp \div 262144), 128 + ((cp \div 4096) % 64),
         128 + ((cp \div 64) % 64), 128 + (cp % 64)>>

\* Buffer.from(text, 'utf8'): a surrogate pair is one code point, a lone
\* surrogate is written as U+FFFD.
RECURSIVE Utf8EncodeFrom(_, _)
Utf8EncodeFrom(s, i) ==
  IF i > Len(s) THEN <<>>
  ELSE IF IsHighSurrogate(s[i]) /\ i < Len(s) /\ IsLowSurrogate(s[i + 1])
    THEN EncodeCodePoint(65536 + (s[i] - 55296) * 1024 + (s[i + 1] - 56320))
           \o Utf8EncodeFrom(s, i + 2)
  ELSE IF IsSurrogate(s[i])
    THEN <<239, 191, 189>> \o Utf8EncodeFrom(s, i + 1)
  ELSE EncodeCodePoint(s[i]) \o Utf8EncodeFrom(s, i + 1)

Utf8Encode(s) == Utf8EncodeFrom(s, 1)

\* The UTF-16 code units of one decoded code point.
CodeUnitsOf(cp) ==
  IF cp < 65536 THEN <<cp>>
  ELSE <<55296 + ((cp - 65536) \div 1024), 56320 + ((cp - 65536) % 1024)>>

\* buf.toString('utf8'): every ill-formed sequence decodes to U+FFFD and the
\* byte that ended it is read again. need = continuation bytes still expected
\* of the sequence being read, cp its code point so far, lo..hi the range the
\* next continuation byte must lie in.
RECURSIVE Utf8DecodeFrom(_, _, _, _, _, _)
Utf8DecodeFrom(b, i, need, cp, lo, hi) ==
  IF i > Len(b) THEN (IF need > 0 THEN <<65533>> ELSE <<>>)
  ELSE LET x == b[i] IN
    IF need = 0 THEN
      IF x < 128 THEN <<x>> \o Utf8DecodeFrom(b, i + 1, 0, 0, 128, 191)
      ELSE IF x >= 194 /\ x <= 223
        THEN Utf8DecodeFrom(b, i + 1, 1, x - 192, 128, 191)
      ELSE IF x >= 224 /\ x <= 239
        THEN Utf8DecodeFrom(b, i + 1, 2, x - 224,
                            IF x = 224 THEN 160 ELSE 128,
                            IF x = 237 THEN 159 ELSE 191)
      ELSE IF x >= 240 /\ x <= 244
        THEN Utf8DecodeFrom(b, i + 1, 3, x - 240,
                            IF x = 240 THEN 144 ELSE 128,
                            IF x = 244 THEN 143 ELSE 191)
      ELSE <<65533>> \o Utf8DecodeFrom(b, i + 1, 0, 0, 128, 191)
    ELSE IF x < lo \/ x > hi
      THEN <<65533>> \o Utf8DecodeFrom(b, i, 0, 0, 128, 191)
    ELSE IF need = 1
      THEN CodeUnitsOf(cp * 64 + (x - 128))
             \o Utf8DecodeFrom(b, i + 1, 0, 0, 128, 191)
    ELSE Utf8DecodeFrom(b, i + 1, need - 1, cp * 64 + (x - 128), 128, 191)

Utf8Decode(b) == Utf8DecodeFrom(b, 1, 0, 0, 128, 191)

\* ------------------------------------------------------------ buffers
\* buf.writeInt32LE(v): the four bytes of v in two's complement, low byte first.
WriteInt32LE(v) ==
  <<v % 256, (v \div 256) % 256, (v \div 65536) % 256, (v \div 16777216) % 256>>

\* buf.readInt32LE(off) (off counted from 0).
ReadInt32LE(b, off) ==
  b[off + 1] + 256 * b[off + 2] + 65536 * b[off + 3]
    + 16777216 * (IF b[off + 4] >= 128 THEN b[off + 4] - 256 ELSE b[off + 4])

\* buf.subarray(start, end): a negative index counts from the end, both are
\* clamped to the buffer, an empty range is the empty buffer.
Subarray(b, start, end) ==
  LET n == Len(b)
      s == IF start < 0 THEN Max(n + start, 0) ELSE Min(start, n)
      e == IF end < 0 THEN Max(n + end, 0) ELSE Min(end, n)
  IN IF e <= s THEN <<>> ELSE SubSeq(b, s + 1, e)

Zeros(n) == [i \in 1..n |-> 0]

\* source.copy(target, off): overwrite target from off with source.
CopyInto(target, source, off) ==
  [i \in 1..Len(target) |->
     IF i > off /\ i <= off + Len(source) THEN source[i - off] ELSE target[i]]

\* ------------------------------------------------------------ codec
\* RconService.buildPacket
buildPacket(id, type, body) ==
  LET bodyBuffer == Utf8Encode(body \o <<0, 0>>)
      packetSize == Len(bodyBuffer) + 10
      packet0 == Zeros(packetSize + 4)
      packet1 == CopyInto(packet0, WriteInt32LE(packetSize), 0)
      packet2 == CopyInto(packet1, WriteInt32LE(id), 4)
      packet3 == CopyInto(packet2, WriteInt32LE(type), 8)
  IN CopyInto(packet3, bodyBuffer, 12)

\* parsePacket taking the body up to the end of the buffer.
parsePacketToEnd(responseBuffer, expectedSize) ==
  IF Len(responseBuffer) < MinHeader
    THEN [ok |-> FALSE, error |-> "Response too short"]
    ELSE [ok |-> TRUE,
          id |-> ReadInt32LE(responseBuffer, 4),
          type |-> ReadInt32LE(responseBuffer, 8),
          body |-> Utf8Decode(Subarray(responseBuffer, 12, Len(responseBuffer) - 2))]

\* RconResponseHandler.parsePacket: the packet, or the Error it throws.
parsePacket(responseBuffer, expectedSize) ==
  IF Len(responseBuffer) < MinHeader
    THEN [ok |-> FALSE, error |-> "Response too short"]
    ELSE [ok |-> TRUE,
          id |-> ReadInt32LE(responseBuffer, 4),
          type |-> ReadInt32LE(responseBuffer, 8),
          body |-> Utf8Decode(Subarray(responseBuffer, 12, expectedSize - 2))]

\* ------------------------------------------------------------ errors
\* rcon.errors: an error is its class, message, code and details; rcon tells
\* whether it is an instance of RconError.
RconError(message, code, details) ==
  [name |-> "RconError", rcon |-> TRUE, message |-> message, code |-> code,
   details |-> details]

RconAuthenticationError(details) ==
  [name |-> "RconAuthenticationError", rcon |-> TRUE,
   message |-> "RCON authentication failed", code |-> "AUTH_FAILED",
   details |-> details]

RconConnectionError(details) ==
  [name |-> "RconConnectionError", rcon |-> TRUE,
   message |-> "RCON connection failed", code |-> "CONNECTION_FAILED",
   details |-> details]

RconTimeoutError(operation) ==
  [name |-> "RconTimeoutError", rcon |-> TRUE,
   message |-> IF operation = "response" THEN "RCON response timeout"
               ELSE "RCON connection timeout",
   code |-> "TIMEOUT",
   details |-> IF operation = "response" THEN "Operation: response"
               ELSE "Operation: connection"]

\* A plain Error, as a socket emits.
PlainError(message) ==
  [name |-> "Error", rcon |-> FALSE, message |-> message, code |-> "",
   details |-> ""]

SocketErrors == {"ECONNRESET"}

\* ------------------------------------------------------------ response handler
\* A new RconResponseHandler: nothing buffered, no timer, no listener.
NewHandler ==
  [started |-> FALSE, responseBuffer |-> <<>>, expectedSize |-> 0,
   timer |-> FALSE, onData |-> FALSE, onError |-> FALSE]

NoOutcome == [kind |-> "none"]
Resolved(packet) == [kind |-> "resolve", packet |-> packet]
Rejected(error) == [kind |-> "reject", error |-> error]

\* RconResponseHandler.start
start(h) ==
  [h EXCEPT !.started = TRUE, !.timer = TRUE, !.onData = TRUE, !.onError = TRUE]

\* cleanup leaving the 'error' listener on the socket.
cleanupKeepsErrorListener(h) ==
  [h EXCEPT !.timer = FALSE, !.onData = FALSE]

\* RconResponseHandler.cleanup
cleanup(h) ==
  [h EXCEPT !.timer = FALSE, !.onData = FALSE, !.onError = FALSE]

\* handleData with the buffer replaced by the last chunk instead of grown by it.
handleDataLastChunkOnly(h, data) ==
  LET buf == data
      exp == IF h.expectedSize = 0 /\ Len(buf) >= 4
               THEN ReadInt32LE(buf, 0) + 4
               ELSE h.expectedSize
      h1 == [h EXCEPT !.responseBuffer = buf, !.expectedSize = exp]
  IN IF exp > 0 /\ Len(buf) >= exp
       THEN LET packet == parsePacket(buf, exp)
            IN IF packet.ok
                 THEN [h |-> cleanup(h1),
                       out |-> Resolved([id |-> packet.id, type |-> packet.type,
                                         body |-> packet.body])]
                 ELSE [h |-> cleanup(h1),
                       out |-> Rejected(RconError("Failed to parse response",
                                                  "PARSE_ERROR", packet.error))]
       ELSE [h |-> h1, out |-> NoOutcome]

\* handleData decoding as soon as the buffer is as long as the expected
\* size, whatever that size is.
handleDataAnySize(h, data) ==
  LET buf == h.responseBuffer \o data
      exp == IF h.expectedSize = 0 /\ Len(buf) >= 4
               THEN ReadInt32LE(buf, 0) + 4
               ELSE h.expectedSize
      h1 == [h EXCEPT !.responseBuffer = buf, !.expectedSize = exp]
  IN IF Len(buf) >= 4 /\ Len(buf) >= exp
       THEN LET packet == parsePacket(buf, exp)
            IN IF packet.ok
                 THEN [h |-> cleanup(h1),
                       out |-> Resolved([id |-> packet.id, type |-> packet.type,
                                         body |-> packet.body])]
                 ELSE [h |-> cleanup(h1),
                       out |-> Rejected(RconError("Failed to parse response",
                                                  "PARSE_ERROR", packet.error))]
       ELSE [h |-> h1, out |-> NoOutcome]

\* RconResponseHandler.handleData: the handler afterwards and what it called.
handleData(h, data) ==
  LET buf == h.responseBuffer \o data
      exp == IF h.expectedSize = 0 /\ Len(buf) >= 4
               THEN ReadInt32LE(buf, 0) + 4
               ELSE h.expectedSize
      h1 == [h EXCEPT !.responseBuffer = buf, !.expectedSize = exp]
  IN IF exp > 0 /\ Len(buf) >= exp
       THEN LET packet == parsePacket(buf, exp)
            IN IF packet.ok
                 THEN [h |-> cleanup(h1),
                       out |-> Resolved([id |-> packet.id, type |-> packet.type,
                                         body |-> packet.body])]
                 ELSE [h |-> cleanup(h1),
                       out |-> Rejected(RconError("Failed to parse response",
                                                  "PARSE_ERROR", packet.error))]
       ELSE [h |-> h1, out |-> NoOutcome]

\* handleError rejecting with the timer left running and the 'data' listener
\* left on the socket.
handleErrorKeepsTimer(h, error) ==
  [h |-> [h EXCEPT !.onError = FALSE], out |-> Rejected(error)]

\* RconResponseHandler.handleError
handleError(h, error) == [h |-> cleanup(h), out |-> Rejected(error)]

\* The timer callback rejecting without cleanup.
handleTimeoutKeepsListeners(h) ==
  [h |-> [h EXCEPT !.timer = FALSE], out |-> Rejected(RconTimeoutError("response"))]

\* The timer callback set up by start.
handleTimeout(h) ==
  [h |-> cleanup(h), out |-> Rejected(RconTimeoutError("response"))]

\* ------------------------------------------------------------ the peer
\* A conforming reply on the wire: size | id | type | body | 00 00, the size
\* counting what follows the size field.
PeerPacket(id, type, bodyBytes) ==
  WriteInt32LE(Len(bodyBytes) + 10) \o WriteInt32LE(id) \o WriteInt32LE(type)
    \o bodyBytes \o <<0, 0>>

PeerBodyBytes == {0, 65, 195, 169}
PeerIds == {AuthFailedId, 1}
PeerTypes == {SERVER_DATA_RESPONSE_VALUE, SERVER_DATA_EXEC_COMMAND}

WellFormedReplies ==
  {PeerPacket(id, type, body) :
     id \in PeerIds, type \in PeerTypes, body \in SeqsUpTo(PeerBodyBytes, MaxReplyBody)}

\* Replies of a peer that does not conform: a declared size of 0, a declared
\* size of -4, a conforming packet with one more byte behind it, a declared
\* size of 6 at the head of 14 bytes, and a declared size of -5 at the head
\* of 14 bytes.
MalformedReplies ==
  {WriteInt32LE(0),
   WriteInt32LE(-4) \o WriteInt32LE(1),
   PeerPacket(1, SERVER_DATA_RESPONSE_VALUE, <<65>>) \o <<7>>,
   WriteInt32LE(6) \o WriteInt32LE(1) \o WriteInt32LE(SERVER_DATA_RESPONSE_VALUE)
     \o <<0, 0>>,
   WriteInt32LE(-5) \o WriteInt32LE(1) \o WriteInt32LE(SERVER_DATA_RESPONSE_VALUE)
     \o <<0, 0>>}

IsWellFormed(reply) == reply \in WellFormedReplies

\* A conforming reply with a second conforming packet behind it.
TrailedReplies ==
  {PeerPacket(1, SERVER_DATA_RESPONSE_VALUE, <<65>>)
     \o PeerPacket(2, SERVER_DATA_RESPONSE_VALUE, <<>>)}

\* ------------------------------------------------------------ inert values
CodecOff ==
  /\ cIn = [id |-> 0, type |-> 0, body |-> <<>>]
  /\ cBytes = <<>>
  /\ cOut = [ok |-> FALSE, error |-> ""]
  /\ cPhase = "off"

HandlerOff ==
  /\ hState = NewHandler
  /\ hReply = <<>>
  /\ hWire = <<>>
  /\ hChunks = 0
  /\ hResolves = <<>>
  /\ hRejects = <<>>

Calls == 1..NumCalls

RconCallsOff ==
  /\ rPc = [c \in Calls |-> "off"]
  /\ rCommand = [c \in Calls |-> <<>>]
  /\ rHandler = [c \in Calls |-> NewHandler]
  /\ rWire = [c \in Calls |-> <<>>]
  /\ rWritten = [c \in Calls |-> <<>>]
  /\ rDestroyed = [c \in Calls |-> FALSE]
  /\ rAuthReply = [c \in Calls |-> <<>>]
  /\ rFailPhase = [c \in Calls |-> "none"]
  /\ rCaught = [c \in Calls |-> <<>>]
  /\ rResult = [c \in Calls |-> <<>>]
  /\ rThrown = [c \in Calls |-> <<>>]

RconOff ==
  /\ requestId = 1
  /\ idLog = <<>>
  /\ RconCallsOff

ListOff ==
  /\ lsDir = <<>>
  /\ lsPc = "off"
  /\ lsFiles = <<>>
  /\ lsOut = [kind |-> "none", value |-> <<>>]

\* The startup script before it runs; "off" when it is not exercised.
ShellAt(pc) ==
  [pc |-> pc, timeout |-> 0, probes |-> 0, sleeps |-> 0, ready |-> FALSE,
   FACTORIO_PID |-> FALSE, HTTP_PID |-> FALSE, game |-> "none", http |-> "none",
   port |-> FALSE, sig |-> "", trapped |-> FALSE, kills |-> <<>>, status |-> -1]

StartupOff == sh = ShellAt("off")

Procs == 1..NumProcs
\* A client is referenced by the service or by the call awaiting it, so
\* NumProcs + 1 objects are all that are alive at any time.
Clients == 1..(NumProcs + 1)

NoClient == [state |-> "none", gen |-> 0, pending |-> {}, abandoned |-> FALSE]

\* An error or a returned text: its message and what the message embeds.
Val(message, cause) == [message |-> message, cause |-> cause]

\* One step of loadSave, with the save name where the step takes it.
Step(name, arg) == [name |-> name, arg |-> arg]

\* What uploadAndLoadSave was called with, when it is the call.
NoUpload == [originalName |-> <<>>, fileBuffer |-> "", autoLoad |-> FALSE]

IdleProc(pc) ==
  [pc |-> pc, op |-> "none", arg |-> "", ret |-> "none", attempts |-> 0, my |-> 0,
   log |-> <<>>, delays |-> <<>>, connects |-> 0, fails |-> 0, lastErr |-> "",
   sends |-> 0, stale |-> FALSE, probes |-> 0, lastProbe |-> FALSE, wait |-> 0, fail |-> Val("", ""),
   out |-> [kind |-> "none", value |-> Val("", "")], ops |-> 0,
   upload |-> NoUpload]

FactOff ==
  /\ svc = [rconClient |-> 0, isConnected |-> FALSE, maxRetries |-> 0, variant |-> "inline"]
  /\ cl = [k \in Clients |-> NoClient]
  /\ pr = [p \in Procs |-> IdleProc("off")]
  /\ env = [alive |-> FALSE, gen |-> 0, lock |-> FALSE, pending |-> "", loaded |-> "",
            written |-> <<>>]

\* ------------------------------------------------------------ codec, exercised
CodeUnits == {0, 65, 233, 8364, 55357, 56832}
CodecIds == {1, 2, 255, 256, 65536, MaxInt32, AuthFailedId, -MaxInt32 - 1}
CodecTypes == {SERVER_DATA_AUTH, SERVER_DATA_EXEC_COMMAND, SERVER_DATA_RESPONSE_VALUE}

InitCodec ==
  /\ unit = "codec"
  /\ ListOff
  /\ StartupOff
  /\ cIn \in [id : CodecIds, type : CodecTypes, body : SeqsUpTo(CodeUnits, MaxBodyLen)]
  /\ cBytes = <<>>
  /\ cOut = [ok |-> FALSE, error |-> ""]
  /\ cPhase = "input"
  /\ HandlerOff
  /\ RconOff
  /\ FactOff

\* sendPacket's call of buildPacket.
CodecBuild ==
  /\ cPhase = "input"
  /\ cBytes' = buildPacket(cIn.id, cIn.type, cIn.body)
  /\ cPhase' = "built"
  /\ UNCHANGED <<unit, sh, listVars, cIn, cOut, handlerVars, rconVars, factVars>>

\* The handler's call of parsePacket on a whole packet: expectedSize is the
\* declared size plus 4.
CodecDecode ==
  /\ cPhase = "built"
  /\ cOut' = parsePacket(cBytes, ReadInt32LE(cBytes, 0) + 4)
  /\ cPhase' = "decoded"
  /\ UNCHANGED <<unit, sh, listVars, cIn, cBytes, handlerVars, rconVars, factVars>>

NextCodec == CodecBuild \/ CodecDecode

SpecCodec == InitCodec /\ [][NextCodec]_vars

\* ------------------------------------------------------------ handler, exercised
InitHandler ==
  /\ unit = "handler"
  /\ ListOff
  /\ StartupOff
  /\ CodecOff
  /\ RconOff
  /\ FactOff
  /\ hState = NewHandler
  /\ hReply \in WellFormedReplies \cup MalformedReplies \cup TrailedReplies
  /\ hWire = hReply
  /\ hChunks = 0
  /\ hResolves = <<>>
  /\ hRejects = <<>>

Settle(out) ==
  /\ hResolves' = IF out.kind = "resolve" THEN Append(hResolves, out.packet)
                  ELSE hResolves
  /\ hRejects' = IF out.kind = "reject" THEN Append(hRejects, out.error)
                 ELSE hRejects

\* sendPacket starts the handler.
HStart ==
  /\ ~hState.started
  /\ hState' = start(hState)
  /\ UNCHANGED <<unit, sh, listVars, codecVars, rconVars, factVars, hReply, hWire, hChunks, hResolves, hRejects>>

\* The socket emits 'data' with the next n bytes; without a listener they are lost.
HData(n) ==
  /\ hState.started
  /\ n \in 1..Len(hWire)
  /\ LET data == SubSeq(hWire, 1, n)
         r == IF hState.onData THEN handleData(hState, data)
              ELSE [h |-> hState, out |-> NoOutcome]
     IN /\ hState' = r.h
        /\ Settle(r.out)
  /\ hWire' = SubSeq(hWire, n + 1, Len(hWire))
  /\ hChunks' = IF hState.onData THEN hChunks + 1 ELSE hChunks
  /\ UNCHANGED <<unit, sh, listVars, codecVars, rconVars, factVars, hReply>>

\* The socket emits 'error' to the handler's listener.
HSocketError(e) ==
  /\ hState.onError
  /\ LET r == handleError(hState, PlainError(e))
     IN /\ hState' = r.h
        /\ Settle(r.out)
  /\ UNCHANGED <<unit, sh, listVars, codecVars, rconVars, factVars, hReply, hWire, hChunks>>

\* The response timer expires.
HTimeout ==
  /\ hState.timer
  /\ LET r == handleTimeout(hState)
     IN /\ hState' = r.h
        /\ Settle(r.out)
  /\ UNCHANGED <<unit, sh, listVars, codecVars, rconVars, factVars, hReply, hWire, hChunks>>

NextHandler ==
  \/ HStart
  \/ \E n \in 1..Len(hWire) : HData(n)
  \/ \E e \in SocketErrors : HSocketError(e)
  \/ HTimeout

SpecHandler == InitHandler /\ [][NextHandler]_vars

\* The response timer, once set, expires unless it is cleared.
SpecHandlerFair == SpecHandler /\ WF_vars(HTimeout)

\* ------------------------------------------------------------ RconService
Password == <<112>>
Commands == {<<47, 116>>}

Lit(str) == [lit |-> str]
Text(units) == [units |-> units]

\* getNextRequestId wrapping to 0.
getNextRequestIdFromZero(r) ==
  [id |-> r, next |-> IF r > MaxInt32 - 1 THEN 0 ELSE r + 1]

\* RconService.getNextRequestId: the id handed out and the counter afterwards.
getNextRequestId(r) ==
  [id |-> r, next |-> IF r > MaxInt32 - 1 THEN 1 ELSE r + 1]

\* RconService.executeCommand, the try branch: result || 'Command completed'.
SuccessResponse(result) ==
  [status |-> "success", message |-> "RCON command executed successfully",
   details |-> IF result = <<>> THEN Lit("Command completed") ELSE Text(result)]

\* RconService.executeCommand, the catch branch.
ErrorResponse(error) ==
  [status |-> "error",
   message |-> IF error.rcon THEN error.message ELSE "RCON execution error",
   details |-> Lit(IF error.rcon THEN error.details ELSE error.message)]

Returned(value) == [ok |-> TRUE, value |-> value]
Thrown(error) == [ok |-> FALSE, error |-> error]

\* authenticate taking id -1 for a rejection only when the body is empty.
authenticateEmptyBodyOnly(out) ==
  IF out.kind = "resolve"
    THEN IF out.packet.id = AuthFailedId /\ out.packet.body = <<>>
           THEN Thrown(RconAuthenticationError(
                  "Authentication rejected - check RCON password and server configuration"))
           ELSE Returned(<<>>)
    ELSE IF out.error.rcon THEN Thrown(out.error)
         ELSE Thrown(RconAuthenticationError(out.error.message))

\* authenticate going on when the wait for the reply failed.
authenticateIgnoringFailure(out) ==
  IF out.kind = "resolve"
    THEN IF out.packet.id = AuthFailedId
           THEN Thrown(RconAuthenticationError(
                  "Authentication rejected - check RCON password and server configuration"))
           ELSE Returned(<<>>)
    ELSE Returned(<<>>)

\* authenticate letting every failure of the wait through as it is.
authenticateRethrows(out) ==
  IF out.kind = "resolve"
    THEN IF out.packet.id = AuthFailedId
           THEN Thrown(RconAuthenticationError(
                  "Authentication rejected - check RCON password and server configuration"))
           ELSE Returned(<<>>)
    ELSE Thrown(out.error)

\* RconService.authenticate, given how its sendPacket settled.
authenticate(out) ==
  IF out.kind = "resolve"
    THEN IF out.packet.id = AuthFailedId
           THEN Thrown(RconAuthenticationError(
                  "Authentication rejected - check RCON password and server configuration"))
           ELSE Returned(<<>>)
    ELSE IF out.error.rcon THEN Thrown(out.error)
         ELSE Thrown(RconAuthenticationError(out.error.message))

\* RconService.sendCommand, given how its sendPacket settled.
sendCommand(out) ==
  IF out.kind = "resolve" THEN Returned(out.packet.body) ELSE Thrown(out.error)

\* What the peer may answer to the packet with this id: a conforming packet
\* that echoes the id or carries -1, or four bytes declaring size 0.
RconReplies(id) ==
  {PeerPacket(AuthFailedId, type, body) :
     type \in PeerTypes, body \in SeqsUpTo({65}, 1)}
  \cup {PeerPacket(id, SERVER_DATA_RESPONSE_VALUE, body) : body \in SeqsUpTo({65}, 1)}
  \cup {WriteInt32LE(0)}

\* The sizes of the next 'data' event: all that is on the wire, or the size
\* field alone.
ChunkSizes(wire) == {n \in {Len(wire), SizeFieldLen} : n >= 1 /\ n <= Len(wire)}

InitRcon ==
  /\ unit = "rcon"
  /\ ListOff
  /\ StartupOff
  /\ CodecOff
  /\ HandlerOff
  /\ FactOff
  /\ requestId = 1
  /\ idLog = <<>>
  /\ rPc = [c \in Calls |-> "idle"]
  /\ rCommand = [c \in Calls |-> <<>>]
  /\ rHandler = [c \in Calls |-> NewHandler]
  /\ rWire = [c \in Calls |-> <<>>]
  /\ rWritten = [c \in Calls |-> <<>>]
  /\ rDestroyed = [c \in Calls |-> FALSE]
  /\ rAuthReply = [c \in Calls |-> <<>>]
  /\ rFailPhase = [c \in Calls |-> "none"]
  /\ rCaught = [c \in Calls |-> <<>>]
  /\ rResult = [c \in Calls |-> <<>>]
  /\ rThrown = [c \in Calls |-> <<>>]

\* RconService.sendPacket on socket c: take an id, build the packet, start a
\* handler, write; the peer's answer follows what is still on the wire.
SendPacket(c, type, body, rest) ==
  LET n == getNextRequestId(requestId)
  IN /\ requestId' = n.next
     /\ rWritten' = [rWritten EXCEPT ![c] = Append(@, buildPacket(n.id, type, body))]
     /\ rHandler' = [rHandler EXCEPT ![c] = start(NewHandler)]
     /\ \E reply \in RconReplies(n.id) : rWire' = [rWire EXCEPT ![c] = rest \o reply]

\* RconService.executeCommand around executeRconCommand: what it returns or
\* throws, given what executeRconCommand returned or threw.
executeCommand(outcome) ==
  IF outcome.ok THEN Returned(SuccessResponse(outcome.value))
  ELSE Returned(ErrorResponse(outcome.error))

\* Call c ending with its socket left open when the connection failed.
FinishOpenAfterConnectFailure(c, h, phase, outcome) ==
  /\ rPc' = [rPc EXCEPT ![c] = "done"]
  /\ rHandler' = [rHandler EXCEPT ![c] = h]
  /\ rWire' = [rWire EXCEPT ![c] = <<>>]
  /\ rDestroyed' = [rDestroyed EXCEPT ![c] = phase # "connect"]
  /\ rFailPhase' = [rFailPhase EXCEPT ![c] = phase]
  /\ rCaught' = [rCaught EXCEPT ![c] = IF outcome.ok THEN <<>> ELSE <<outcome.error>>]
  /\ LET settled == executeCommand(outcome)
     IN /\ rResult' = [rResult EXCEPT ![c] = IF settled.ok THEN <<settled.value>> ELSE <<>>]
        /\ rThrown' = [rThrown EXCEPT ![c] = IF settled.ok THEN <<>> ELSE <<settled.error>>]
  /\ UNCHANGED <<requestId, rWritten>>

\* Call c ends: executeRconCommand's finally destroys the socket (nothing
\* more is delivered from it) and executeCommand settles. outcome is what
\* executeRconCommand returned or threw, phase the step that failed.
Finish(c, h, phase, outcome) ==
  /\ rPc' = [rPc EXCEPT ![c] = "done"]
  /\ rHandler' = [rHandler EXCEPT ![c] = h]
  /\ rWire' = [rWire EXCEPT ![c] = <<>>]
  /\ rDestroyed' = [rDestroyed EXCEPT ![c] = TRUE]
  /\ rFailPhase' = [rFailPhase EXCEPT ![c] = phase]
  /\ rCaught' = [rCaught EXCEPT ![c] = IF outcome.ok THEN <<>> ELSE <<outcome.error>>]
  /\ LET settled == executeCommand(outcome)
     IN /\ rResult' = [rResult EXCEPT ![c] = IF settled.ok THEN <<settled.value>> ELSE <<>>]
        /\ rThrown' = [rThrown EXCEPT ![c] = IF settled.ok THEN <<>> ELSE <<settled.error>>]
  /\ UNCHANGED <<requestId, rWritten>>

\* executeCommand(command): createConnection makes a socket and connects it.
RExecute(c, command) ==
  /\ rPc[c] = "idle"
  /\ rPc' = [rPc EXCEPT ![c] = "connecting"]
  /\ rCommand' = [rCommand EXCEPT ![c] = command]
  /\ UNCHANGED <<unit, sh, listVars, codecVars, handlerVars, factVars, idLog, requestId, rHandler, rWire, rWritten,
                 rDestroyed, rAuthReply, rFailPhase, rCaught, rResult, rThrown>>

\* connectSocket: 'connect'; authenticate sends the AUTH packet.
RConnected(c) ==
  /\ rPc[c] = "connecting"
  /\ rPc' = [rPc EXCEPT ![c] = "authWait"]
  /\ SendPacket(c, SERVER_DATA_AUTH, Password, rWire[c])
  /\ UNCHANGED <<unit, sh, listVars, codecVars, handlerVars, factVars, idLog, rCommand, rDestroyed, rAuthReply,
                 rFailPhase, rCaught, rResult, rThrown>>

\* connectSocket: 'error'; createConnection destroys the socket and throws
\* RconConnectionError(error.message).
RConnectError(c, e) ==
  /\ rPc[c] = "connecting"
  /\ Finish(c, rHandler[c], "connect",
            Thrown(RconConnectionError(PlainError(e).message)))
  /\ UNCHANGED <<unit, sh, listVars, codecVars, handlerVars, factVars, idLog, rCommand, rAuthReply>>

\* connectSocket: the connection timer; createConnection wraps the timeout.
RConnectTimeout(c) ==
  /\ rPc[c] = "connecting"
  /\ Finish(c, rHandler[c], "connect",
            Thrown(RconConnectionError(RconTimeoutError("connection").message)))
  /\ UNCHANGED <<unit, sh, listVars, codecVars, handlerVars, factVars, idLog, rCommand, rAuthReply>>

\* What follows when the handler of call c has run: r is the handler and what
\* it called, rest the bytes still on the wire.
Continue(c, r, rest) ==
  IF r.out.kind = "none"
    THEN /\ rHandler' = [rHandler EXCEPT ![c] = r.h]
         /\ rWire' = [rWire EXCEPT ![c] = rest]
         /\ UNCHANGED <<requestId, rPc, rWritten, rDestroyed, rAuthReply, rFailPhase,
                        rCaught, rResult, rThrown>>
  ELSE IF rPc[c] = "authWait"
    THEN LET a == authenticate(r.out)
         IN /\ rAuthReply' = [rAuthReply EXCEPT
                                ![c] = IF r.out.kind = "resolve" THEN <<r.out.packet>>
                                       ELSE <<>>]
            /\ IF a.ok
                 THEN /\ rPc' = [rPc EXCEPT ![c] = "cmdWait"]
                      /\ SendPacket(c, SERVER_DATA_EXEC_COMMAND, rCommand[c], rest)
                      /\ UNCHANGED <<rDestroyed, rFailPhase, rCaught, rResult, rThrown>>
                 ELSE Finish(c, r.h, "auth", a)
  ELSE LET s == sendCommand(r.out)
       IN /\ UNCHANGED rAuthReply
          /\ Finish(c, r.h, IF s.ok THEN "none" ELSE "command", s)

\* Socket c emits 'data' with the next n bytes.
RData(c, n) ==
  /\ rPc[c] \in {"authWait", "cmdWait"}
  /\ rHandler[c].onData
  /\ n \in ChunkSizes(rWire[c])
  /\ Continue(c, handleData(rHandler[c], SubSeq(rWire[c], 1, n)),
              SubSeq(rWire[c], n + 1, Len(rWire[c])))
  /\ UNCHANGED <<unit, sh, listVars, codecVars, handlerVars, factVars, idLog, rCommand>>

\* Socket c emits 'error'.
RSocketError(c, e) ==
  /\ rPc[c] \in {"authWait", "cmdWait"}
  /\ rHandler[c].onError
  /\ Continue(c, handleError(rHandler[c], PlainError(e)), rWire[c])
  /\ UNCHANGED <<unit, sh, listVars, codecVars, handlerVars, factVars, idLog, rCommand>>

\* The response timer of the handler on socket c expires.
RTimeout(c) ==
  /\ rPc[c] \in {"authWait", "cmdWait"}
  /\ rHandler[c].timer
  /\ Continue(c, handleTimeout(rHandler[c]), rWire[c])
  /\ UNCHANGED <<unit, sh, listVars, codecVars, handlerVars, factVars, idLog, rCommand>>

NextRcon ==
  \E c \in Calls :
    \/ \E command \in Commands : RExecute(c, command)
    \/ RConnected(c)
    \/ \E e \in SocketErrors : RConnectError(c, e)
    \/ RConnectTimeout(c)
    \/ \E n \in ChunkSizes(rWire[c]) : RData(c, n)
    \/ \E e \in SocketErrors : RSocketError(c, e)
    \/ RTimeout(c)

SpecRcon == InitRcon /\ [][NextRcon]_vars

\* ------------------------------------------------------------ request ids
\* The counter as it stands at the start of the service and as it stands
\* when all but the last few ids up to the largest have been handed out.
IdStarts == {1} \cup {MaxInt32 - d : d \in 0..IdWindow}

InitIds ==
  /\ unit = "ids"
  /\ ListOff
  /\ StartupOff
  /\ CodecOff
  /\ HandlerOff
  /\ FactOff
  /\ RconCallsOff
  /\ requestId \in IdStarts
  /\ idLog = <<>>

\* sendPacket takes the next id.
IdSend ==
  /\ Len(idLog) < MaxIds
  /\ LET n == getNextRequestId(requestId)
     IN /\ requestId' = n.next
        /\ idLog' = Append(idLog, n.id)
  /\ UNCHANGED <<unit, sh, listVars, codecVars, handlerVars, factVars, rPc, rCommand, rHandler, rWire,
                 rWritten, rDestroyed, rAuthReply, rFailPhase, rCaught, rResult, rThrown>>

NextIds == IdSend

SpecIds == InitIds /\ [][NextIds]_vars

\* ------------------------------------------------------------ listSaves
\* A file name is the sequence of its characters.
ZipSuffix == <<".", "z", "i", "p">>

\* String.prototype.endsWith.
endsWith(str, suffix) ==
  /\ Len(str) >= Len(suffix)
  /\ SubSeq(str, Len(str) - Len(suffix) + 1, Len(str)) = suffix

\* String.prototype.indexOf: the first position (from 1) where pattern
\* starts, 0 when there is none.
indexOf(str, pattern) ==
  LET hits == {i \in 1..(Len(str) - Len(pattern) + 1) :
                 SubSeq(str, i, i + Len(pattern) - 1) = pattern}
  IN IF hits = {} THEN 0 ELSE CHOOSE i \in hits : \A j \in hits : i <= j

\* String.prototype.replace with a string pattern: the first occurrence only.
replace(str, pattern, replacement) ==
  LET i == indexOf(str, pattern)
  IN IF i = 0 THEN str
     ELSE SubSeq(str, 1, i - 1) \o replacement \o SubSeq(str, i + Len(pattern), Len(str))

\* The comparator with its operands exchanged: oldest first.
compareOldestFirst(saveA, saveB) == saveA.modified - saveB.modified

\* The comparator handed to sort.
compare(saveA, saveB) == saveB.modified - saveA.modified

\* Array.prototype.sort is stable: x goes behind every element the
\* comparator does not put behind it.
RECURSIVE insertSorted(_, _)
insertSorted(x, sorted) ==
  IF sorted = <<>> THEN <<x>>
  ELSE IF compare(Head(sorted), x) <= 0
       THEN <<Head(sorted)>> \o insertSorted(x, Tail(sorted))
       ELSE <<x>> \o sorted

RECURSIVE sort(_)
sort(arr) ==
  IF arr = <<>> THEN <<>>
  ELSE insertSorted(arr[Len(arr)], sort(SubSeq(arr, 1, Len(arr) - 1)))

\* files.filter((file) => file.endsWith('.zip'))
saveFilesOf(files) == SelectSeq(files, LAMBDA file : endsWith(file, ZipSuffix))

\* fs.stat of one name in the directory.
statOf(dir, file) == dir[CHOOSE i \in 1..Len(dir) : dir[i].file = file]

\* The record built for one kept name.
saveInfoOf(dir, file) ==
  [name |-> replace(file, ZipSuffix, <<>>),
   size |-> statOf(dir, file).size,
   modified |-> statOf(dir, file).mtime]

FileNames ==
  {<<"a", ".", "z", "i", "p">>,
   <<"b", ".", "z", "i", "p">>,
   <<".", "z", "i", "p">>,
   <<"c", ".", "z", "i", "p", ".", "z", "i", "p">>,
   <<"d", ".", "t", "x", "t">>,
   <<"e", "z", "i", "p">>,
   <<"f", ".", "Z", "I", "P">>}

\* The directories: distinct names, each with a size and a modification time.
Directories ==
  {d \in SeqsUpTo([file : FileNames, size : {0, 1}, mtime : 1..MaxMtime], MaxFiles) :
     \A i, j \in 1..Len(d) : i # j => d[i].file # d[j].file}

InitList ==
  /\ unit = "list"
  /\ StartupOff
  /\ CodecOff
  /\ HandlerOff
  /\ RconOff
  /\ FactOff
  /\ lsDir \in Directories
  /\ lsPc = "readdir"
  /\ lsFiles = <<>>
  /\ lsOut = [kind |-> "none", value |-> <<>>]

\* fs.readdir resolves: the names are filtered and the stats requested.
ReaddirDone ==
  /\ lsPc = "readdir"
  /\ lsFiles' = saveFilesOf([i \in 1..Len(lsDir) |-> lsDir[i].file])
  /\ lsPc' = "stat"
  /\ UNCHANGED <<unit, sh, codecVars, handlerVars, rconVars, factVars, lsDir, lsOut>>

\* Promise.all of the stats resolves: the records are sorted and returned.
StatsDone ==
  /\ lsPc = "stat"
  /\ lsOut' = [kind |-> "returned",
               value |-> sort([i \in 1..Len(lsFiles) |-> saveInfoOf(lsDir, lsFiles[i])])]
  /\ lsPc' = "done"
  /\ UNCHANGED <<unit, sh, codecVars, handlerVars, rconVars, factVars, lsDir, lsFiles>>

\* fs.readdir or an fs.stat rejects: the catch wraps the error.
ListSavesRejects ==
  /\ lsPc \in {"readdir", "stat"}
  /\ lsOut' = [kind |-> "thrown", value |-> Val("Failed to list save files", "ENOENT")]
  /\ lsPc' = "done"
  /\ UNCHANGED <<unit, sh, codecVars, handlerVars, rconVars, factVars, lsDir, lsFiles>>

NextList == ReaddirDone \/ StatsDone \/ ListSavesRejects

SpecList == InitList /\ [][NextList]_vars

\* ------------------------------------------------------------ FactorioRconService
\* One action is the code a call runs between two waits for the outside
\* world (a connect, a send, an end, a timer, a child process, the file
\* system); w is the service, its clients, the calls and the server as that
\* code has changed them so far.
ConnectErrors == {"ECONNREFUSED", "ETIMEDOUT"}
SendErrors == {"Timeout"}
FactorioCommands == {"/time"}
Saves == {"default"}
SaveNames == {"default", "other"}
Variants == {"inline", "split"}

World == [svc |-> svc, cl |-> cl, pr |-> pr, env |-> env]

\* The client objects something still refers to; the others are garbage.
Referenced(w) == {w.svc.rconClient} \cup {w.pr[q].my : q \in Procs}

Collect(w) ==
  [w EXCEPT !.cl = [k \in Clients |-> IF k \in Referenced(w) THEN w.cl[k] ELSE NoClient]]

Commit(w) ==
  LET v == Collect(w)
  IN /\ svc' = v.svc
     /\ cl' = v.cl
     /\ pr' = v.pr
     /\ env' = v.env
     /\ UNCHANGED <<unit, sh, listVars, codecVars, handlerVars, rconVars>>

\* new Rcon(...): an object nothing refers to yet.
NewClient(w) ==
  CHOOSE k \in Clients :
    /\ k \notin Referenced(w)
    /\ \A j \in Clients : j < k => j \in Referenced(w)

\* A call of the service begins.
Begin(w, p, op, arg) ==
  [w EXCEPT !.pr[p] = [IdleProc("idle") EXCEPT !.op = op, !.arg = arg,
                                               !.ops = w.pr[p].ops]]

\* The call settles: its locals are gone, what it did stays on record.
Settled(w, p, out) ==
  [w EXCEPT !.pr[p].pc = "idle", !.pr[p].ops = @ + 1, !.pr[p].out = out,
            !.pr[p].ret = "none", !.pr[p].attempts = 0, !.pr[p].fail = Val("", "")]

\* The call returns value / throws error to its caller.
Return(w, p, value) == Settled(w, p, [kind |-> "return", value |-> value])

Throw(w, p, error) == Settled(w, p, [kind |-> "throw", value |-> error])

\* executeCommand's catch, resending on a new connection.
sendFailedReconnect(w, p, e) ==
  LET k == NewClient(w)
  IN [w EXCEPT !.svc.rconClient = k,
               !.cl[k] = [state |-> "connected", gen |-> w.env.gen, pending |-> {p},
                          abandoned |-> FALSE],
               !.pr[p].pc = "sending", !.pr[p].my = k, !.pr[p].sends = @ + 1]

\* executeCommand's catch: the failure of send is wrapped and thrown.
sendFailed(w, p, e) == Throw(w, p, Val("Failed to execute command", e))

\* executeCommand after ensureConnected: this.rconClient!.send(command). A
\* client that is not connected rejects the send without writing.
send(w, p) ==
  LET k == w.svc.rconClient
  IN IF k = 0 THEN sendFailed(w, p, "TypeError")
     ELSE IF w.cl[k].state # "connected"
       THEN sendFailed([w EXCEPT !.pr[p].sends = @ + 1], p, "Not connected")
     ELSE [w EXCEPT !.cl[k].pending = @ \cup {p},
                    !.pr[p].pc = "sending", !.pr[p].my = k, !.pr[p].sends = @ + 1,
                    !.pr[p].stale = w.cl[k].abandoned]

\* loadSave's last lines, after connect() returned.
loadSaveReturns(w, p) ==
  Return(w, p, Val("Server restarted and loaded save", w.pr[p].arg))

\* uploadAndLoadSave's last lines.
uploadAndLoadSaveReturns(w, p) ==
  Return(w, p, Val(IF w.pr[p].upload.autoLoad
                     THEN "Save file uploaded successfully and loaded"
                     ELSE "Save file uploaded successfully", "default.zip"))

\* startServerWithSave returned to loadSave or to uploadAndLoadSave.
startServerWithSaveReturned(w, p) ==
  IF w.pr[p].op = "upload" THEN uploadAndLoadSaveReturns(w, p) ELSE loadSaveReturns(w, p)

\* connect() returned to the code that awaited it.
connectReturned(w, p) ==
  CASE w.pr[p].ret = "retry" -> send(w, p)
    [] w.pr[p].ret = "load" -> startServerWithSaveReturned(w, p)
    [] OTHER -> Throw(w, p, w.pr[p].fail)

\* connect() making a new client whether connected or not.
connectAlways(w, p, ret) ==
  LET k == NewClient(w)
  IN [w EXCEPT !.svc.rconClient = k,
               !.cl[k] = [NoClient EXCEPT !.state = "connecting"],
               !.pr[p].pc = "connecting", !.pr[p].my = k, !.pr[p].ret = ret,
               !.pr[p].connects = @ + 1]

\* connect() connecting the client the service holds again, when it holds one.
connectInPlace(w, p, ret) ==
  IF w.svc.isConnected /\ w.svc.rconClient # 0
    THEN connectReturned([w EXCEPT !.pr[p].ret = ret], p)
    ELSE LET k == IF w.svc.rconClient # 0 THEN w.svc.rconClient ELSE NewClient(w)
         IN [w EXCEPT !.svc.rconClient = k,
                      !.cl[k].state = "connecting",
                      !.pr[p].pc = "connecting", !.pr[p].my = k, !.pr[p].ret = ret,
                      !.pr[p].connects = @ + 1]

\* connect(): nothing to do when connected, else a new client starts to
\* connect; ret is the code that awaits it.
connect(w, p, ret) ==
  IF w.svc.isConnected /\ w.svc.rconClient # 0
    THEN connectReturned([w EXCEPT !.pr[p].ret = ret], p)
    ELSE LET k == NewClient(w)
         IN [w EXCEPT !.svc.rconClient = k,
                      !.cl[k] = [NoClient EXCEPT !.state = "connecting"],
                      !.pr[p].pc = "connecting", !.pr[p].my = k, !.pr[p].ret = ret,
                      !.pr[p].connects = @ + 1]

\* loadSave's catch (the inline variant): remember the error, try to
\* reconnect, then throw; the split variant has no catch.
loadSaveFailed(w, p, e) ==
  IF w.svc.variant = "inline"
    THEN connect([w EXCEPT !.pr[p].fail = Val("Failed to load save", e),
                           !.pr[p].log = Append(@, Step("reconnect", ""))], p, "recover")
    ELSE Throw(w, p, Val(e, ""))

\* retryConnection's catch waiting 1000 ms before every retry.
retryConnectionFixedDelay(w, p, e) ==
  LET nextAttempts == w.pr[p].attempts + 1
  IN IF nextAttempts >= w.svc.maxRetries THEN Throw(w, p, Val(e, ""))
     ELSE [w EXCEPT !.pr[p].pc = "retryDelay", !.pr[p].attempts = nextAttempts,
                    !.pr[p].delays = Append(@, RetryDelayUnitMs)]

\* retryConnection's catch giving up one attempt later.
retryConnectionOneMore(w, p, e) ==
  LET nextAttempts == w.pr[p].attempts + 1
  IN IF nextAttempts > w.svc.maxRetries THEN Throw(w, p, Val(e, ""))
     ELSE [w EXCEPT !.pr[p].pc = "retryDelay", !.pr[p].attempts = nextAttempts,
                    !.pr[p].delays = Append(@, RetryDelayUnitMs * nextAttempts)]

\* retryConnection's catch: give up with this error, or wait and retry.
retryConnection(w, p, e) ==
  LET nextAttempts == w.pr[p].attempts + 1
  IN IF nextAttempts >= w.svc.maxRetries THEN Throw(w, p, Val(e, ""))
     ELSE [w EXCEPT !.pr[p].pc = "retryDelay", !.pr[p].attempts = nextAttempts,
                    !.pr[p].delays = Append(@, RetryDelayUnitMs * nextAttempts)]

\* ensureConnectedRecursive giving up one attempt later.
ensureConnectedRecursiveOneMore(w, p, e) ==
  LET attempts == w.pr[p].attempts
  IN IF attempts >= w.svc.maxRetries THEN Throw(w, p, Val(e, ""))
     ELSE [w EXCEPT !.pr[p].pc = "retryDelay", !.pr[p].attempts = attempts + 1,
                    !.pr[p].delays = Append(@, RetryDelayUnitMs * (attempts + 1))]

\* ensureConnectedRecursive's catch (the split variant): give up with this
\* error, or wait and retry.
ensureConnectedRecursive(w, p, e) ==
  LET attempts == w.pr[p].attempts
  IN IF attempts >= w.svc.maxRetries - 1 THEN Throw(w, p, Val(e, ""))
     ELSE [w EXCEPT !.pr[p].pc = "retryDelay", !.pr[p].attempts = attempts + 1,
                    !.pr[p].delays = Append(@, RetryDelayUnitMs * (attempts + 1))]

\* connect() threw e to the code that awaited it.
connectThrew(w, p, e) ==
  CASE w.pr[p].ret = "retry" -> IF w.svc.variant = "split"
                                  THEN ensureConnectedRecursive(w, p, e)
                                  ELSE retryConnection(w, p, e)
    [] w.pr[p].ret = "load" -> loadSaveFailed(w, p, e)
    [] OTHER -> Throw(w, p, w.pr[p].fail)

\* ensureConnected, then the rest of executeCommand.
ensureConnected(w, p) ==
  IF w.svc.isConnected /\ w.svc.rconClient # 0
    THEN connectReturned([w EXCEPT !.pr[p].ret = "retry"], p)
    ELSE connect(w, p, "retry")

\* stopServer after disconnect(): pkill is started.
disconnectReturned(w, p) ==
  IF w.pr[p].ret = "load"
    THEN [w EXCEPT !.pr[p].pc = "pkill", !.pr[p].log = Append(@, Step("pkill", ""))]
    ELSE Return(w, p, Val("", ""))

\* disconnect(): end the client when connected, and forget it.
disconnect(w, p, ret) ==
  IF w.svc.rconClient # 0 /\ w.svc.isConnected
    THEN [w EXCEPT !.pr[p].pc = "ending", !.pr[p].my = w.svc.rconClient,
                   !.pr[p].ret = ret]
    ELSE disconnectReturned([w EXCEPT !.svc.rconClient = 0, !.pr[p].ret = ret], p)

\* --- the calls and what they wait for
FExecute(p, command) ==
  /\ pr[p].pc = "idle"
  /\ pr[p].ops < MaxOps
  /\ Commit(ensureConnected(Begin(World, p, "exec", command), p))

\* onModuleDestroy.
FDisconnect(p) ==
  /\ pr[p].pc = "idle"
  /\ pr[p].ops < MaxOps
  /\ Commit(disconnect(Begin(World, p, "disconnect", ""), p, "op"))

\* rconClient.connect() of the client p awaits resolves.
ConnectResolves(p) ==
  /\ pr[p].pc = "connecting"
  /\ cl[pr[p].my].state = "connecting"
  /\ env.alive
  /\ LET k == pr[p].my
     IN Commit(connectReturned(
          [World EXCEPT !.cl[k].state = "connected", !.cl[k].gen = env.gen,
                        !.svc.isConnected = TRUE, !.pr[p].my = 0], p))

\* rconClient.connect() rejects; connect()'s catch clears isConnected.
ConnectRejects(p, e) ==
  /\ pr[p].pc = "connecting"
  /\ LET k == pr[p].my
     IN Commit(connectThrew(
          [World EXCEPT !.cl[k].state = "failed", !.svc.isConnected = FALSE,
                        !.pr[p].my = 0, !.pr[p].fails = @ + 1,
                        !.pr[p].lastErr = e], p, e))

\* The delay before a retry is over: retryConnection(nextAttempts).
RetryDelayDone(p) ==
  /\ pr[p].pc = "retryDelay"
  /\ Commit(connect(World, p, "retry"))

\* rconClient.send() resolves with the server's answer.
SendResolves(p) ==
  /\ pr[p].pc = "sending"
  /\ LET k == pr[p].my
     IN /\ cl[k].state = "connected"
        /\ env.alive
        /\ cl[k].gen = env.gen
        /\ Commit(Return([World EXCEPT !.cl[k].pending = @ \ {p}, !.pr[p].my = 0],
                         p, Val("response", pr[p].arg)))

\* rconClient.send() rejects.
SendRejects(p, e) ==
  /\ pr[p].pc = "sending"
  /\ LET k == pr[p].my
     IN Commit(sendFailed([World EXCEPT !.cl[k].pending = @ \ {p},
                                        !.cl[k].abandoned = TRUE, !.pr[p].my = 0],
                          p, e))

\* rconClient.end() resolves.
EndResolves(p) ==
  /\ pr[p].pc = "ending"
  /\ LET k == pr[p].my
     IN Commit(disconnectReturned(
          [World EXCEPT !.cl[k].state = "ended", !.svc.isConnected = FALSE,
                        !.svc.rconClient = 0, !.pr[p].my = 0], p))

\* disconnect() letting the failure of end() through.
disconnectRethrows(w, p, e) == Throw([w EXCEPT !.pr[p].my = 0], p, Val(e, ""))

\* disconnect()'s catch: the failure of end() is logged, the client is
\* forgotten all the same.
disconnectCaught(w, p, e) ==
  disconnectReturned([w EXCEPT !.svc.rconClient = 0, !.pr[p].my = 0], p)

\* rconClient.end() rejects.
EndRejects(p) ==
  /\ pr[p].pc = "ending"
  /\ Commit(disconnectCaught(World, p, "Not connected"))

InitService(variants) ==
  /\ CodecOff
  /\ HandlerOff
  /\ RconOff
  /\ \E n \in 0..DefaultMaxRetries, v \in variants :
       svc = [rconClient |-> 0, isConnected |-> FALSE, maxRetries |-> n, variant |-> v]
  /\ cl = [k \in Clients |-> NoClient]
  /\ pr = [p \in Procs |-> IdleProc("idle")]
  /\ \E up \in BOOLEAN :
       env = [alive |-> up, gen |-> IF up THEN 1 ELSE 0, lock |-> up,
              pending |-> "", loaded |-> IF up THEN "default" ELSE "",
              written |-> <<>>]

InitFactorio ==
  /\ unit = "factorio"
  /\ ListOff
  /\ StartupOff
  /\ InitService({"inline"})

\* Concurrent executeCommand calls and module shutdown.
NextFactorio ==
  \E p \in Procs :
    \/ \E command \in FactorioCommands : FExecute(p, command)
    \/ FDisconnect(p)
    \/ ConnectResolves(p)
    \/ \E e \in ConnectErrors : ConnectRejects(p, e)
    \/ RetryDelayDone(p)
    \/ SendResolves(p)
    \/ \E e \in SendErrors : SendRejects(p, e)
    \/ EndResolves(p)
    \/ EndRejects(p)

SpecFactorio == InitFactorio /\ [][NextFactorio]_vars

\* The client's connect() settles (it has a timeout) and the timer before a
\* retry fires.
SpecFactorioFair ==
  /\ SpecFactorio
  /\ \A p \in Procs :
       /\ WF_vars(\E e \in ConnectErrors : ConnectRejects(p, e))
       /\ WF_vars(RetryDelayDone(p))

\* The two executors, each on its own.
InitExec == InitRcon \/ InitFactorio

NextExec == NextRcon \/ NextFactorio

SpecExec == InitExec /\ [][NextExec]_vars

\* --- loadSave
\* The launch command is started: the server process with this save is on
\* its way up.
launch(w, p) ==
  [w EXCEPT !.env.pending = w.pr[p].arg,
            !.pr[p].log = Append(@, Step("launch", w.pr[p].arg))]

\* loadSave going on without the connect() that follows the polling.
waitForServerReadyReturnedNoConnect(w, p) == loadSaveReturns(w, p)

\* waitForServerReady returned: await this.connect().
waitForServerReadyReturned(w, p) ==
  connect([w EXCEPT !.pr[p].log = Append(@, Step("connect", ""))], p, "load")

\* loadSave(saveName): listSaves reads the save directory.
FLoadSave(p, saveName) ==
  /\ pr[p].pc = "idle"
  /\ pr[p].ops < MaxOps
  /\ Commit([Begin(World, p, "load", saveName) EXCEPT !.pr[p].pc = "listSaves"])

\* loadSave going on to the restart whatever the listing holds.
loadSaveListedUnchecked(w, p) ==
  disconnect([w EXCEPT !.pr[p].log = Append(@, Step("disconnect", ""))], p, "load")

\* loadSave after listSaves returned: an unknown save ends the call, else
\* step 1 is disconnect().
loadSaveListed(w, p) ==
  IF w.pr[p].arg \notin Saves
    THEN Throw(w, p, Val("Save file not found", w.pr[p].arg))
    ELSE disconnect([w EXCEPT !.pr[p].log = Append(@, Step("disconnect", ""))], p, "load")

\* listSaves threw: the inline variant wraps the error, the split variant
\* lets it through; loadSave has no catch around it.
listSavesFailed(w, p, e) ==
  Throw(w, p, IF w.svc.variant = "inline" THEN Val("Failed to list save files", e)
              ELSE Val(e, ""))

\* listSaves settled.
ListSavesDone(p, ok) ==
  /\ pr[p].pc = "listSaves"
  /\ Commit(IF ok THEN loadSaveListed(World, p) ELSE listSavesFailed(World, p, "EIO"))

\* pkill settled, its failure ending the call.
PkillDoneUncaught(p, ok) ==
  /\ pr[p].pc = "pkill"
  /\ ok => env.alive
  /\ Commit(IF ok THEN [World EXCEPT !.env.alive = FALSE,
                                      !.pr[p].pc = "settle",
                                      !.pr[p].log = Append(@, Step("settle", "")),
                                      !.pr[p].delays = Append(@, SettleDelayMs)]
            ELSE loadSaveFailed(World, p, "Command failed"))

\* pkill settled (its failure is caught): the settle delay starts.
PkillDone(p, ok) ==
  /\ pr[p].pc = "pkill"
  /\ ok => env.alive
  /\ Commit([World EXCEPT !.env.alive = IF ok THEN FALSE ELSE @,
                          !.pr[p].pc = "settle",
                          !.pr[p].log = Append(@, Step("settle", "")),
                          !.pr[p].delays = Append(@, SettleDelayMs)])

\* The settle delay is over: rm -f of the lock file is started.
SettleDone(p) ==
  /\ pr[p].pc = "settle"
  /\ Commit([World EXCEPT !.pr[p].pc = "rmlock",
                          !.pr[p].log = Append(@, Step("rmlock", ""))])

\* rm settled (its failure is caught). The inline variant starts the launch
\* command without awaiting it and waits 2000 ms; the split variant first
\* looks for box64, and uploadAndLoadSave writes the file between the two.
RmLockDone(p, ok) ==
  /\ pr[p].pc = "rmlock"
  /\ LET w == [World EXCEPT !.env.lock = IF ok THEN FALSE ELSE @]
     IN Commit(IF svc.variant = "inline"
                 THEN [launch(w, p) EXCEPT !.pr[p].pc = "launchDelay",
                                           !.pr[p].delays = Append(@, LaunchDelayMs)]
                 ELSE IF pr[p].op = "upload" THEN [w EXCEPT !.pr[p].pc = "mkdir"]
                 ELSE [w EXCEPT !.pr[p].pc = "which"])

\* getFactorioExecutable settled (split variant): the launch command is
\* started and awaited.
WhichDone(p) ==
  /\ pr[p].pc = "which"
  /\ Commit([launch(World, p) EXCEPT !.pr[p].pc = "launching"])

\* The launch command settled (split variant): wait 2000 ms, or fail.
LaunchDone(p, ok) ==
  /\ pr[p].pc = "launching"
  /\ Commit(IF ok THEN [World EXCEPT !.pr[p].pc = "launchDelay",
                                      !.pr[p].delays = Append(@, LaunchDelayMs)]
            ELSE loadSaveFailed(World, p, "Command failed"))

\* The delay after the launch is over: waitForServerReady makes its first
\* probe.
LaunchDelayDone(p) ==
  /\ pr[p].pc = "launchDelay"
  /\ Commit([World EXCEPT !.pr[p].pc = "probing", !.pr[p].attempts = 0,
                          !.pr[p].log = Append(@, Step("poll", ""))])

\* waitForServerReady probing once more after the last attempt.
waitForServerReadyOneMore(w, p) ==
  IF w.pr[p].attempts < maxAttempts
    THEN [w EXCEPT !.pr[p].pc = "probeDelay", !.pr[p].wait = delayMs]
    ELSE loadSaveFailed(w, p, "Timeout waiting for Factorio server to be ready")

\* waitForServerReady after a probe that was not ready: another probe after
\* delayMs, or the timeout error at the last attempt.
waitForServerReadyNotReady(w, p) ==
  IF w.pr[p].attempts < maxAttempts - 1
    THEN [w EXCEPT !.pr[p].pc = "probeDelay", !.pr[p].wait = delayMs]
    ELSE loadSaveFailed(w, p, "Timeout waiting for Factorio server to be ready")

\* testConnection: true when the connect() and the end() of its own client
\* both resolve; a rejection of either is caught and gives false.
testConnection(connected, ended) == connected /\ ended

\* testConnection settled: its client connected or not (only a running
\* server accepts it), its end() (called after a connect that resolved)
\* resolved or not.
ProbeDone(p, connected, ended) ==
  /\ pr[p].pc = "probing"
  /\ connected => env.alive
  /\ ended => connected
  /\ LET ok == testConnection(connected, ended)
         w == [World EXCEPT !.pr[p].probes = @ + 1, !.pr[p].lastProbe = ok]
     IN Commit(IF ok THEN waitForServerReadyReturned(w, p)
               ELSE waitForServerReadyNotReady(w, p))

\* The delay between two probes is over.
ProbeDelayDone(p) ==
  /\ pr[p].pc = "probeDelay"
  /\ Commit([World EXCEPT !.pr[p].pc = "probing", !.pr[p].attempts = @ + 1])

\* The launched server process is up and listens.
ServerUp ==
  /\ env.pending # ""
  /\ ~env.alive
  /\ Commit([World EXCEPT !.env.alive = TRUE, !.env.gen = @ + 1, !.env.lock = TRUE,
                          !.env.pending = "", !.env.loaded = env.pending])

\* The caller whose calls follow one another.
Caller == 1

InitLoad ==
  /\ unit = "load"
  /\ ListOff
  /\ StartupOff
  /\ InitService(Variants)

\* The calls of the service one after the other, loadSave among them.
NextLoad ==
  \/ \E p \in {Caller} :
       \/ \E command \in FactorioCommands : FExecute(p, command)
       \/ FDisconnect(p)
       \/ \E saveName \in SaveNames : FLoadSave(p, saveName)
       \/ ConnectResolves(p)
       \/ \E e \in ConnectErrors : ConnectRejects(p, e)
       \/ RetryDelayDone(p)
       \/ SendResolves(p)
       \/ \E e \in SendErrors : SendRejects(p, e)
       \/ EndResolves(p)
       \/ EndRejects(p)
       \/ \E ok \in BOOLEAN : ListSavesDone(p, ok)
       \/ \E ok \in BOOLEAN : PkillDone(p, ok)
       \/ SettleDone(p)
       \/ \E ok \in BOOLEAN : RmLockDone(p, ok)
       \/ WhichDone(p)
       \/ \E ok \in BOOLEAN : LaunchDone(p, ok)
       \/ LaunchDelayDone(p)
       \/ \E connected, ended \in BOOLEAN : ProbeDone(p, connected, ended)
       \/ ProbeDelayDone(p)
  \/ ServerUp

SpecLoad == InitLoad /\ [][NextLoad]_vars

\* --- uploadAndLoadSave (the split variant has it)
\* String.prototype.toLowerCase, on the letters the names are made of.
toLowerCase(str) ==
  [i \in 1..Len(str) |->
     CASE str[i] = "Z" -> "z" [] str[i] = "I" -> "i" [] str[i] = "P" -> "p"
       [] str[i] = "S" -> "s" [] OTHER -> str[i]]

finalName == <<"d", "e", "f", "a", "u", "l", "t", ".", "z", "i", "p">>
safeName == "default"

\* path.join(savesDir, name).
join(dir, name) == [dir |-> dir, name |-> name]

\* The file is written under the name it was uploaded with.
targetPathOfOriginal(originalName) == join("/factorio/saves", originalName)

\* targetPath: the same for every original name.
targetPath(originalName) == join("/factorio/saves", finalName)

OriginalNames ==
  {<<"a", ".", "z", "i", "p">>, <<"S", ".", "Z", "I", "P">>, <<"d", ".", "t", "x", "t">>}
FileBuffers == {"A", "B"}

\* uploadAndLoadSave up to its first wait: the name check, then stopServer
\* when autoLoad, else mkdir.
uploadAndLoadSave(w, p) ==
  IF ~endsWith(toLowerCase(w.pr[p].upload.originalName), ZipSuffix)
    THEN Throw(w, p, Val("Save file must be a .zip file", ""))
  ELSE IF w.pr[p].upload.autoLoad
    THEN disconnect([w EXCEPT !.pr[p].log = Append(@, Step("disconnect", ""))], p, "load")
  ELSE [w EXCEPT !.pr[p].pc = "mkdir"]

FUpload(p, fileBuffer, originalName, autoLoad) ==
  /\ pr[p].pc = "idle"
  /\ pr[p].ops < MaxOps
  /\ Commit(uploadAndLoadSave(
       [Begin(World, p, "upload", safeName) EXCEPT
          !.pr[p].upload = [originalName |-> originalName, fileBuffer |-> fileBuffer,
                            autoLoad |-> autoLoad]], p))

\* fs.mkdir settled: writeFile is started, or the error leaves the call.
MkdirDone(p, ok) ==
  /\ pr[p].pc = "mkdir"
  /\ Commit(IF ok THEN [World EXCEPT !.pr[p].pc = "writeFile"]
            ELSE Throw(World, p, Val("EACCES", "")))

\* fs.writeFile settled: with autoLoad startServerWithSave looks for box64,
\* else the call returns; an error leaves the call.
WriteFileDone(p, ok) ==
  /\ pr[p].pc = "writeFile"
  /\ LET path == targetPath(pr[p].upload.originalName)
         w == [World EXCEPT
                 !.env.written = Append(@, [path |-> path,
                                            data |-> pr[p].upload.fileBuffer]),
                 !.pr[p].log = Append(@, Step("write", path.name))]
     IN Commit(IF ~ok THEN Throw(World, p, Val("ENOSPC", ""))
               ELSE IF pr[p].upload.autoLoad THEN [w EXCEPT !.pr[p].pc = "which"]
               ELSE uploadAndLoadSaveReturns(w, p))

InitUpload ==
  /\ unit = "upload"
  /\ ListOff
  /\ StartupOff
  /\ InitService({"split"})

\* The calls of the service one after the other, uploadAndLoadSave among
\* them.
NextUpload ==
  \/ \E p \in {Caller} :
       \/ \E command \in FactorioCommands : FExecute(p, command)
       \/ \E fileBuffer \in FileBuffers, originalName \in OriginalNames, autoLoad \in BOOLEAN :
            FUpload(p, fileBuffer, originalName, autoLoad)
       \/ ConnectResolves(p)
       \/ \E e \in ConnectErrors : ConnectRejects(p, e)
       \/ RetryDelayDone(p)
       \/ SendResolves(p)
       \/ \E e \in SendErrors : SendRejects(p, e)
       \/ EndResolves(p)
       \/ EndRejects(p)
       \/ \E ok \in BOOLEAN : PkillDone(p, ok)
       \/ SettleDone(p)
       \/ \E ok \in BOOLEAN : RmLockDone(p, ok)
       \/ \E ok \in BOOLEAN : MkdirDone(p, ok)
       \/ \E ok \in BOOLEAN : WriteFileDone(p, ok)
       \/ WhichDone(p)
       \/ \E ok \in BOOLEAN : LaunchDone(p, ok)
       \/ LaunchDelayDone(p)
       \/ \E connected, ended \in BOOLEAN : ProbeDone(p, connected, ended)
       \/ pr[p].attempts < MaxPolls /\ ProbeDelayDone(p)
  \/ ServerUp

SpecUpload == InitUpload /\ [][NextUpload]_vars

\* The caller of executeCommand while Caller's loadSave is under way.
Other == 2

InitLoadExec ==
  /\ unit = "loadexec"
  /\ ListOff
  /\ StartupOff
  /\ InitService(Variants)

\* One loadSave by Caller and, concurrently, executeCommand calls by Other.
\* The server is up after at most MaxPolls + 1 probes, or the loadSave polls
\* no more.
NextLoadExec ==
  \/ \E p \in {Caller} :
       \/ \E saveName \in Saves : pr[p].ops = 0 /\ FLoadSave(p, saveName)
       \/ \E ok \in BOOLEAN : ListSavesDone(p, ok)
       \/ \E ok \in BOOLEAN : PkillDone(p, ok)
       \/ SettleDone(p)
       \/ \E ok \in BOOLEAN : RmLockDone(p, ok)
       \/ WhichDone(p)
       \/ \E ok \in BOOLEAN : LaunchDone(p, ok)
       \/ LaunchDelayDone(p)
       \/ \E connected, ended \in BOOLEAN : ProbeDone(p, connected, ended)
       \/ pr[p].attempts < MaxPolls /\ ProbeDelayDone(p)
       \/ EndResolves(p)
       \/ EndRejects(p)
  \/ \E p \in {Other} :
       \/ \E command \in FactorioCommands : FExecute(p, command)
       \/ RetryDelayDone(p)
       \/ SendResolves(p)
       \/ \E e \in SendErrors : SendRejects(p, e)
  \/ \E p \in {Caller, Other} :
       \/ ConnectResolves(p)
       \/ \E e \in ConnectErrors : ConnectRejects(p, e)
  \/ ServerUp

SpecLoadExec == InitLoadExec /\ [][NextLoadExec]_vars

InitLoads ==
  /\ unit = "loads"
  /\ ListOff
  /\ StartupOff
  /\ InitService(Variants)

\* Concurrent callers of loadSave, one call each: the controller passes
\* every request on to the service. The server is up after at most
\* MaxPolls + 1 probes of a call, or that call polls no more.
NextLoads ==
  \/ \E p \in Procs :
       \/ \E saveName \in SaveNames : pr[p].ops = 0 /\ FLoadSave(p, saveName)
       \/ ConnectResolves(p)
       \/ \E e \in ConnectErrors : ConnectRejects(p, e)
       \/ EndResolves(p)
       \/ EndRejects(p)
       \/ \E ok \in BOOLEAN : ListSavesDone(p, ok)
       \/ \E ok \in BOOLEAN : PkillDone(p, ok)
       \/ SettleDone(p)
       \/ \E ok \in BOOLEAN : RmLockDone(p, ok)
       \/ WhichDone(p)
       \/ \E ok \in BOOLEAN : LaunchDone(p, ok)
       \/ LaunchDelayDone(p)
       \/ \E connected, ended \in BOOLEAN : ProbeDone(p, connected, ended)
       \/ pr[p].attempts < MaxPolls /\ ProbeDelayDone(p)
  \/ ServerUp

SpecLoads == InitLoads /\ [][NextLoads]_vars

\* A probe settles (its client has a timeout of its own) and the timer
\* between two probes fires.
SpecLoadFair ==
  /\ SpecLoad
  /\ WF_vars(\E connected, ended \in BOOLEAN : ProbeDone(Caller, connected, ended))
  /\ WF_vars(ProbeDelayDone(Caller))


\* ------------------------------------------------------------ startup.sh
\* The shell runs one command after the other; pc names the command that
\* is next (or, for sleep, nc and wait, the one that is running). A child is
\* none, running, signalled (it was sent SIGTERM by kill) or exited.
Signals == {"SIGTERM", "SIGINT"}

\* exit n.
exit(s, n) == [s EXCEPT !.pc = "exited", !.status = n]

\* kill $PID: SIGTERM to a child that runs.
kill(state) == IF state = "running" THEN "signalled" ELSE state

\* After the while loop: [ $timeout -le 0 ] && exit 1, else on to node.
afterLoop(s) == IF s.timeout <= 0 THEN exit(s, 1) ELSE [s EXCEPT !.pc = "launch"]

\* The head of the while loop: with time left nc probes the port, else the
\* loop is over.
loopTest(s) == IF s.timeout > 0 THEN [s EXCEPT !.pc = "probe"] ELSE afterLoop(s)

\* cleanup, the handler of SIGTERM and SIGINT: kill $HTTP_PID when it is
\* set, kill $FACTORIO_PID when it is set and then wait for it, exit 0.
cleanupTrap(s) ==
  LET a == IF s.HTTP_PID
             THEN [s EXCEPT !.http = kill(@), !.kills = Append(@, "http")]
             ELSE s
      b == IF a.FACTORIO_PID
             THEN [a EXCEPT !.game = kill(@), !.kills = Append(@, "game")]
             ELSE a
  IN IF b.FACTORIO_PID THEN [b EXCEPT !.pc = "cleanupWait"] ELSE exit(b, 0)

ShStep(s) ==
  /\ sh' = s
  /\ UNCHANGED <<unit, codecVars, handlerVars, rconVars, factVars, listVars>>

\* A command of the script proper runs when no trapped signal is pending.
ShAt(pc) == sh.pc = pc /\ sh.sig = ""

\* start_factorio: the game server is started in the background.
ShStartFactorio ==
  /\ ShAt("start_factorio")
  /\ ShStep([sh EXCEPT !.game = "running", !.pc = "setFactorioPid"])

\* FACTORIO_PID=$!
ShSetFactorioPid ==
  /\ ShAt("setFactorioPid")
  /\ ShStep([sh EXCEPT !.FACTORIO_PID = TRUE, !.pc = "sleep5"])

\* sleep 5 is over; start_http_server sets timeout=60 and enters the loop.
ShInitialSleepDone ==
  /\ ShAt("sleep5")
  /\ ShStep(loopTest([sh EXCEPT !.timeout = ProbeBudgetS]))

\* nc -z settled: the port accepted the connection (ok) or not.
ShProbeDone(ok) ==
  /\ ShAt("probe")
  /\ ok => sh.port
  /\ LET s == [sh EXCEPT !.probes = @ + 1]
     IN ShStep(IF ok THEN afterLoop([s EXCEPT !.ready = TRUE])
               ELSE [s EXCEPT !.pc = "sleep2"])

\* sleep 2 is over: timeout=$((timeout - 2)) and back to the loop's head.
ShSleepDone ==
  /\ ShAt("sleep2")
  /\ ShStep(loopTest([sh EXCEPT !.timeout = @ - ProbeSleepS, !.sleeps = @ + 1]))

\* node dist/main.js &
ShLaunchHttp ==
  /\ ShAt("launch")
  /\ ShStep([sh EXCEPT !.http = "running", !.pc = "setHttpPid"])

\* HTTP_PID=$!, then the script's last command, wait.
ShSetHttpPid ==
  /\ ShAt("setHttpPid")
  /\ ShStep([sh EXCEPT !.HTTP_PID = TRUE, !.pc = "wait"])

\* wait returns when no child is left; the script ends.
ShWaitReturns ==
  /\ ShAt("wait")
  /\ sh.game = "exited" /\ sh.http = "exited"
  /\ ShStep(exit(sh, 0))

\* SIGTERM or SIGINT is delivered to the shell.
ShSignal(sig) ==
  /\ sh.pc \notin {"off", "exited"}
  /\ sh.sig = ""
  /\ ~sh.trapped
  /\ ShStep([sh EXCEPT !.sig = sig])

\* The trap runs: when the command that was running is over (at once for
\* wait), before the next command of the script.
ShTrap ==
  /\ sh.sig # ""
  /\ sh.pc \notin {"off", "exited"}
  /\ ~sh.trapped
  /\ ShStep(cleanupTrap([sh EXCEPT !.trapped = TRUE]))

\* wait $FACTORIO_PID in cleanup returns: exit 0.
ShCleanupWaitDone ==
  /\ sh.pc = "cleanupWait"
  /\ sh.game = "exited"
  /\ ShStep(exit(sh, 0))

\* The game server listens on the RCON port.
PortOpens ==
  /\ sh.pc \notin {"off", "exited"}
  /\ sh.game = "running"
  /\ ~sh.port
  /\ ShStep([sh EXCEPT !.port = TRUE])

\* The game server exits, on SIGTERM or by itself.
GameExits ==
  /\ sh.pc \notin {"off", "exited"}
  /\ sh.game \in {"running", "signalled"}
  /\ ShStep([sh EXCEPT !.game = "exited", !.port = FALSE])

\* The HTTP process exits, on SIGTERM or by itself.
HttpExits ==
  /\ sh.pc \notin {"off", "exited"}
  /\ sh.http \in {"running", "signalled"}
  /\ ShStep([sh EXCEPT !.http = "exited"])

InitStartup ==
  /\ unit = "startup"
  /\ CodecOff
  /\ HandlerOff
  /\ RconOff
  /\ FactOff
  /\ ListOff
  /\ sh = ShellAt("start_factorio")

NextStartup ==
  \/ ShStartFactorio
  \/ ShSetFactorioPid
  \/ ShInitialSleepDone
  \/ \E ok \in BOOLEAN : ShProbeDone(ok)
  \/ ShSleepDone
  \/ ShLaunchHttp
  \/ ShSetHttpPid
  \/ ShWaitReturns
  \/ \E sig \in Signals : ShSignal(sig)
  \/ ShTrap
  \/ ShCleanupWaitDone
  \/ PortOpens
  \/ GameExits
  \/ HttpExits

SpecStartup == InitStartup /\ [][NextStartup]_vars


\* ------------------------------------------------------------ claims
\* C1: round trip: decoding what buildPacket(id, type, body) built, with
\* expected size = declared size + 4, gives back id, type and body whenever
\* the body holds no NUL.
HasNoNul(body) == \A i \in 1..Len(body) : body[i] # 0

C1_RoundTrip ==
  (cPhase = "decoded" /\ HasNoNul(cIn.body)) =>
    (cOut.ok /\ cOut.id = cIn.id /\ cOut.type = cIn.type /\ cOut.body = cIn.body)

\* C2: the size field of a built packet is the UTF-8 length of the body plus
\* 10, and the packet is size + 4 bytes long.
C2_SizeField ==
  (cPhase \in {"built", "decoded"}) =>
    /\ ReadInt32LE(cBytes, 0) = Len(Utf8Encode(cIn.body)) + 10
    /\ Len(cBytes) = ReadInt32LE(cBytes, 0) + 4

\* C3: fragmentation tolerance: however the bytes of a well-formed packet are
\* split into 'data' events, the handler resolves once, with the packet a
\* single 'data' event carrying all the bytes resolves with, and not before
\* the last byte has arrived.
WholeOutcome(reply) == handleData(start(NewHandler), reply).out

C3_FragmentationTolerance ==
  IsWellFormed(hReply) =>
    /\ WholeOutcome(hReply).kind = "resolve"
    /\ Len(hResolves) <= 1
    /\ \A i \in 1..Len(hResolves) :
         hResolves[i] = WholeOutcome(hReply).packet /\ hWire = <<>>
    /\ (hWire = <<>> /\ hRejects = <<>>) => Len(hResolves) = 1

C3_Witness ==
  /\ IsWellFormed(hReply)
  /\ hChunks >= 3
  /\ Len(hResolves) = 1
  /\ hResolves[1].body # <<>>

\* The type field of a written packet.
TypeOf(packet) == ReadInt32LE(packet, 8)

ExecWritten(c) ==
  {i \in 1..Len(rWritten[c]) : TypeOf(rWritten[c][i]) = SERVER_DATA_EXEC_COMMAND}

\* C4: whenever the packet received in reply to AUTH has id -1, whatever its
\* body and type, authenticate fails with RconAuthenticationError (code
\* AUTH_FAILED), the call ends with that error and no EXEC_COMMAND packet is
\* written on the socket.
C4_AuthRejected ==
  \A c \in Calls :
    (rAuthReply[c] # <<>> /\ rAuthReply[c][1].id = AuthFailedId) =>
      /\ rPc[c] = "done"
      /\ rFailPhase[c] = "auth"
      /\ rCaught[c] # <<>>
      /\ rCaught[c][1].name = "RconAuthenticationError"
      /\ rCaught[c][1].code = "AUTH_FAILED"
      /\ rResult[c] # <<>>
      /\ rResult[c][1].status = "error"
      /\ rResult[c][1].message = "RCON authentication failed"
      /\ ExecWritten(c) = {}

C4_Witness ==
  \E c \in Calls :
    /\ rAuthReply[c] # <<>>
    /\ rAuthReply[c][1].id = AuthFailedId
    /\ rAuthReply[c][1].body # <<>>
    /\ rAuthReply[c][1].type = SERVER_DATA_RESPONSE_VALUE
    /\ rPc[c] = "done"
    /\ rCaught[c][1].code = "AUTH_FAILED"

\* C5: an EXEC_COMMAND packet is written on a socket only after an AUTH
\* packet was written on that socket and a complete reply with an id other
\* than -1 was received for it; when the connect or the authentication
\* fails, times out or errors, no EXEC_COMMAND packet is written.
C5_ExecOnlyAfterAuth ==
  \A c \in Calls :
    /\ \A i \in ExecWritten(c) :
         /\ i > 1
         /\ TypeOf(rWritten[c][1]) = SERVER_DATA_AUTH
         /\ rAuthReply[c] # <<>>
         /\ rAuthReply[c][1].id # AuthFailedId
    /\ rFailPhase[c] \in {"connect", "auth"} => ExecWritten(c) = {}

C5_Witness ==
  \E c \in Calls :
    /\ ExecWritten(c) = {2}
    /\ rAuthReply[c] # <<>>
    /\ rAuthReply[c][1].id # AuthFailedId

\* C6: the executor's execute operation never throws: executeCommand of
\* RconService and executeCommand of FactorioRconService always settle by
\* returning, a failure being returned as a result with status 'error'.
C6_NeverThrows ==
  /\ \A c \in Calls :
       /\ rThrown[c] = <<>>
       /\ rPc[c] = "done" =>
            /\ rResult[c] # <<>>
            /\ rResult[c][1].status = (IF rCaught[c] = <<>> THEN "success" ELSE "error")
  /\ \A p \in Procs : pr[p].op = "exec" => pr[p].out.kind # "throw"

\* The retries of a call: the connects it made after its first.
Retries(p) == IF pr[p].connects = 0 THEN 0 ELSE pr[p].connects - 1

\* C7: reconnect policy: one executeCommand makes at most maxRetries retries
\* (never more than max(1, maxRetries) connects in all), the wait before
\* retry number i is i * 1000 ms, a connect is attempted again only after a
\* failed one, and when the call gives up it throws the error of its last
\* failed attempt.
C7_ReconnectPolicy ==
  \A p \in Procs :
    pr[p].op = "exec" =>
      /\ Retries(p) <= svc.maxRetries
      /\ pr[p].connects <= Max(1, svc.maxRetries)
      /\ Len(pr[p].delays) \in {Retries(p), Retries(p) + 1}
      /\ Len(pr[p].delays) <= pr[p].fails
      /\ \A i \in 1..Len(pr[p].delays) : pr[p].delays[i] = i * RetryDelayUnitMs
      /\ pr[p].connects <= pr[p].fails + 1
      /\ pr[p].pc = "retryDelay" => pr[p].fails < svc.maxRetries
      /\ (pr[p].out.kind = "throw" /\ pr[p].sends = 0 /\ pr[p].out.value.cause = "") =>
           /\ pr[p].fails = Max(1, svc.maxRetries)
           /\ pr[p].out.value = Val(pr[p].lastErr, "")

\* A call connected at its third attempt, having waited 1000 and 2000 ms, and
\* sent; another gave up with the error of its last attempt, which is not
\* the error of its first.
C7_Witness ==
  /\ svc.maxRetries = DefaultMaxRetries
  /\ \E p \in Procs :
       /\ pr[p].op = "exec"
       /\ pr[p].connects = 3
       /\ pr[p].fails = 2
       /\ pr[p].delays = <<RetryDelayUnitMs, 2 * RetryDelayUnitMs>>
       /\ pr[p].out.kind = "return"
  /\ \E p \in Procs :
       /\ pr[p].op = "exec"
       /\ pr[p].fails = 3
       /\ pr[p].out = [kind |-> "throw", value |-> Val("ETIMEDOUT", "")]

\* C8: within one execute call the command is sent at most once, and a send
\* that fails ends the call with that failure: nothing is connected or sent
\* after it.
C8_SentAtMostOnce ==
  /\ \A c \in Calls :
       /\ Cardinality(ExecWritten(c)) <= 1
       /\ rFailPhase[c] = "command" =>
            /\ rPc[c] = "done"
            /\ rDestroyed[c]
            /\ rResult[c] # <<>>
            /\ rResult[c][1].status = "error"
  /\ \A p \in Procs :
       pr[p].op = "exec" =>
         /\ pr[p].sends <= 1
         /\ pr[p].sends = 1 => pr[p].pc \in {"sending", "idle"}
         /\ (pr[p].sends = 1 /\ pr[p].pc = "idle") => pr[p].out.kind # "none"

\* An executeCommand of FactorioRconService connected, sent, and the send
\* failed.
C8_Witness ==
  \E p \in Procs :
    /\ pr[p].op = "exec"
    /\ pr[p].sends = 1
    /\ pr[p].connects >= 1
    /\ pr[p].out = [kind |-> "throw", value |-> Val("Failed to execute command", "Timeout")]

\* C9: no client ever has two sends outstanding: at most one send() made on
\* it has not settled yet.
C9_OneOutstandingSend ==
  \A k \in Clients : Cardinality(cl[k].pending) <= 1

\* The steps of a loadSave(saveName) in which no step fails.
LoadSteps(saveName) ==
  <<Step("disconnect", ""), Step("pkill", ""), Step("settle", ""), Step("rmlock", ""),
    Step("launch", saveName), Step("poll", ""), Step("connect", "")>>

\* C10: a loadSave that returns has taken, in this order and each once, the
\* steps disconnect, pkill, settle delay, lock removal, launch with the save
\* name, polling, connect; its last probe succeeded; and at the moment it
\* returns the service holds a client, isConnected is true and the result
\* names the save.
C10_LoadSaveSteps ==
  [][\A p \in Procs :
       (pr[p].op = "load" /\ pr[p].pc # "idle"
          /\ pr'[p].pc = "idle" /\ pr'[p].out.kind = "return") =>
         /\ pr'[p].log = LoadSteps(pr[p].arg)
         /\ pr'[p].delays = <<SettleDelayMs, LaunchDelayMs>>
         /\ pr'[p].probes >= 1
         /\ pr'[p].lastProbe
         /\ svc'.rconClient # 0
         /\ svc'.isConnected
         /\ cl'[svc'.rconClient].state = "connected"
         /\ pr'[p].out.value = Val("Server restarted and loaded save", pr[p].arg)]_vars

\* A loadSave of each variant can return: one that stopped a running
\* server, polled more than once and connected to the server it launched.
C10_Witness ==
  \E p \in Procs :
    /\ pr[p].op = "load"
    /\ pr[p].pc = "idle"
    /\ pr[p].out.kind = "return"
    /\ pr[p].probes >= 2
    /\ pr[p].log = LoadSteps("default")
    /\ env.alive
    /\ env.gen = 2
    /\ env.loaded = "default"
    /\ svc.isConnected
    /\ svc.rconClient # 0
    /\ cl[svc.rconClient].gen = 2

\* C11: a loadSave(saveName) whose name is not among the listed saves takes
\* no step of the restart (nothing disconnected, killed, removed, launched,
\* probed or connected), it can only throw, with the not-found error when the
\* listing succeeded, and the step in which it throws leaves rconClient,
\* isConnected, the clients and the server process as they were.
C11_Quiet(p) ==
  (pr[p].op = "load" /\ pr[p].arg \notin Saves) =>
    /\ pr[p].pc \in {"listSaves", "idle"}
    /\ pr[p].log = <<>>
    /\ pr[p].delays = <<>>
    /\ pr[p].probes = 0
    /\ pr[p].connects = 0
    /\ pr[p].sends = 0
    /\ pr[p].pc = "idle" =>
         /\ pr[p].out.kind = "throw"
         /\ pr[p].out.value \in {Val("Save file not found", pr[p].arg),
                                 Val("Failed to list save files", "EIO"), Val("EIO", "")}

C11_UnknownSave ==
  /\ [](\A p \in Procs : C11_Quiet(p))
  /\ [][\A p \in Procs :
          (pr[p].op = "load" /\ pr[p].arg \notin Saves /\ pr[p].pc = "listSaves"
             /\ pr'[p].pc = "idle") =>
            (svc' = svc /\ cl' = cl /\ env' = env)]_vars

\* loadSave("other") threw not-found on a connected service with a running
\* server.
C11_Witness ==
  \E p \in Procs :
    /\ pr[p].op = "load"
    /\ pr[p].arg = "other"
    /\ pr[p].out = [kind |-> "throw", value |-> Val("Save file not found", "other")]
    /\ svc.isConnected
    /\ svc.rconClient # 0
    /\ cl[svc.rconClient].state = "connected"
    /\ env.alive

Polling(p) == pr[p].pc \in {"probing", "probeDelay"}

TimeoutErrors ==
  {Val("Failed to load save", "Timeout waiting for Factorio server to be ready"),
   Val("Timeout waiting for Factorio server to be ready", "")}

\* C12: readiness polling makes at most 30 probes, each but the first after
\* a delay of 2000 ms, makes no probe after a successful one, makes loadSave
\* fail with the timeout error when the 30th probe fails, and always ends.
C12_Polling(p) ==
  pr[p].op = "load" =>
    /\ pr[p].probes <= maxAttempts
    /\ pr[p].pc = "probing" => pr[p].probes = pr[p].attempts
    /\ pr[p].pc = "probeDelay" =>
         /\ pr[p].probes = pr[p].attempts + 1
         /\ pr[p].probes < maxAttempts
         /\ pr[p].wait = delayMs
    /\ (Polling(p) /\ pr[p].probes > 0) => ~pr[p].lastProbe
    /\ (pr[p].probes = maxAttempts /\ ~pr[p].lastProbe) =>
         /\ pr[p].pc \in {"connecting", "idle"}
         /\ pr[p].pc = "connecting" => pr[p].fail \in TimeoutErrors
         /\ pr[p].pc = "idle" =>
              (pr[p].out.kind = "throw" /\ pr[p].out.value \in TimeoutErrors)

C12_BoundedPolling ==
  /\ [](\A p \in Procs : C12_Polling(p))
  /\ \A p \in Procs : Polling(p) ~> ~Polling(p)

\* loadSave failed with the timeout error after 30 probes.
C12_Witness ==
  \E p \in Procs :
    /\ pr[p].op = "load"
    /\ pr[p].probes = maxAttempts
    /\ ~pr[p].lastProbe
    /\ pr[p].wait = delayMs
    /\ pr[p].pc = "idle"
    /\ pr[p].out.kind = "throw"
    /\ pr[p].out.value \in TimeoutErrors

\* C13: a loadSave that fails after it closed the connection makes one
\* reconnect attempt before it throws, and throws the failure of the restart
\* whatever the reconnect did.
C13_BestEffortReconnect ==
  \A p \in Procs :
    (pr[p].op = "load" /\ pr[p].pc = "idle" /\ pr[p].out.kind = "throw"
       /\ pr[p].log # <<>>) =>
      /\ pr[p].log[Len(pr[p].log)] = Step("reconnect", "")
      /\ Cardinality({i \in 1..Len(pr[p].log) : pr[p].log[i] = Step("reconnect", "")}) = 1
      /\ pr[p].out.value.message = "Failed to load save"

\* The loadSave calls that are past the validation and have not settled.
Restarting == {p \in Procs : pr[p].op = "load" /\ pr[p].pc \notin {"idle", "listSaves"}}

\* C14: the restart steps of two loadSave calls never overlap: at most one
\* loadSave is between its disconnect and its return at any time.
C14_NoOverlap == Cardinality(Restarting) <= 1

TimedOut == \E i \in 1..Len(hRejects) : hRejects[i].code = "TIMEOUT"

\* C15: when the response timer fires, the handler rejects with
\* RconTimeoutError('response') (code TIMEOUT), once and without having
\* resolved, and from then on it has no 'data' listener, no 'error' listener
\* and no timer; and the timer of a started handler that has not settled is
\* always pending, so a handler left without a complete reply does time out.
C15_ResponseTimeout ==
  /\ TimedOut =>
       /\ hRejects = <<RconTimeoutError("response")>>
       /\ hRejects[1].name = "RconTimeoutError"
       /\ hRejects[1].code = "TIMEOUT"
       /\ hResolves = <<>>
       /\ ~hState.onData
       /\ ~hState.onError
       /\ ~hState.timer
  /\ (hState.started /\ hResolves = <<>> /\ hRejects = <<>>) =>
       (hState.timer /\ hState.onData /\ hState.onError)

\* The timer fired before any data arrived, and data arrived afterwards.
C15_Witness ==
  /\ hRejects = <<RconTimeoutError("response")>>
  /\ hChunks = 0
  /\ Len(hWire) < Len(hReply)
  /\ ~hState.onData
  /\ ~hState.onError


\* C16: a connect that does not complete within the connection timeout makes
\* the call fail with RconTimeoutError('connection') (code TIMEOUT), not
\* with the RconConnectionError of a failed connect.
C16_ConnectTimeoutError ==
  \A c \in Calls :
    (rFailPhase[c] = "connect" /\ rCaught[c] # <<>>
       /\ rCaught[c][1].details = RconTimeoutError("connection").message) =>
      /\ rCaught[c][1].name = "RconTimeoutError"
      /\ rCaught[c][1].code = "TIMEOUT"
      /\ rResult[c][1].message = RconTimeoutError("connection").message

\* C17: a connect() made while the service is connected (isConnected and a
\* client held) constructs no client, starts no connect and leaves
\* rconClient and isConnected as they are. The retry of a call whose earlier
\* attempt failed is such a connect() when another call has connected in the
\* meantime.
C17_ConnectIdempotent ==
  [][\A p \in Procs :
       (pr[p].pc = "retryDelay" /\ pr'[p].pc # "retryDelay"
          /\ svc.isConnected /\ svc.rconClient # 0) =>
         /\ svc' = svc
         /\ pr'[p].connects = pr[p].connects
         /\ pr'[p].pc # "connecting"
         /\ \A k \in Clients : cl'[k].state = cl[k].state /\ cl'[k].gen = cl[k].gen]_vars

\* A call whose first connect failed found the service connected at its
\* retry and sent its command on the client of the other call.
C17_Witness ==
  \E p \in Procs :
    /\ pr[p].op = "exec"
    /\ pr[p].fails = 1
    /\ pr[p].connects = 1
    /\ pr[p].delays = <<RetryDelayUnitMs>>
    /\ pr[p].pc = "sending"
    /\ svc.isConnected
    /\ svc.rconClient = pr[p].my

IdAfter(s, d) == IF s > MaxInt32 - d THEN (s - MaxInt32) + d ELSE s + d

\* C19: every id handed out lies in 1..2147483647, each is the one before
\* plus 1, with 1 following 2147483647, so the ids run round a cycle of
\* 2147483647 values in which no id comes twice; the counter itself never
\* leaves 1..2147483647.
C19_RequestIds ==
  /\ requestId >= 1
  /\ requestId <= MaxInt32
  /\ \A i \in 1..Len(idLog) :
       /\ idLog[i] >= 1
       /\ idLog[i] <= MaxInt32
       /\ idLog[i] # AuthFailedId
       /\ idLog[i] = IdAfter(idLog[1], i - 1)
       /\ i < Len(idLog) =>
            idLog[i + 1] = (IF idLog[i] = MaxInt32 THEN 1 ELSE idLog[i] + 1)
       /\ \A j \in 1..Len(idLog) : i # j => idLog[i] # idLog[j]
  /\ idLog # <<>> => requestId = IdAfter(idLog[1], Len(idLog))

\* The sends that got the last two ids below the wrap and the first two
\* after it.
C19_Witness == idLog = <<MaxInt32 - 1, MaxInt32, 1, 2>>

\* C20: once the wait for a response on a connection was given up, that
\* connection is closed and no later command is sent on it: no client on
\* which a send was rejected stays connected, no call sends on such a
\* client, and every call of RconService ends with its socket closed.
C20_AbandonedNotReused ==
  /\ \A c \in Calls : rPc[c] = "done" => rDestroyed[c]
  /\ \A k \in Clients : cl[k].abandoned => cl[k].state # "connected"
  /\ \A p \in Procs : ~pr[p].stale

\* C21: listSaves returns one record for each directory entry whose name
\* ends in ".zip" and for no other entry, each with the entry's size and
\* modification time, no record older than its successor, and every record
\* newer than its successor when the modification times are distinct.
IsZipEntry(e) ==
  LET n == Len(e.file)
  IN n >= 4 /\ e.file[n - 3] = "." /\ e.file[n - 2] = "z" /\ e.file[n - 1] = "i"
            /\ e.file[n] = "p"

ZipEntries == SelectSeq(lsDir, IsZipEntry)

C21_ListSaves ==
  (lsPc = "done" /\ lsOut.kind = "returned") =>
    LET out == lsOut.value
    IN /\ Len(out) = Len(ZipEntries)
       /\ \E f \in Permutations(1..Len(out)) :
            \A j \in 1..Len(out) :
              /\ out[j].modified = ZipEntries[f[j]].mtime
              /\ out[j].size = ZipEntries[f[j]].size
       /\ \A j \in 1..(Len(out) - 1) : out[j].modified >= out[j + 1].modified
       /\ (\A i, j \in 1..Len(ZipEntries) :
             i # j => ZipEntries[i].mtime # ZipEntries[j].mtime)
          => \A j \in 1..(Len(out) - 1) : out[j].modified > out[j + 1].modified

\* Three saves with distinct times, listed by the directory oldest first,
\* are returned newest first.
C21_Witness ==
  /\ lsPc = "done" /\ lsOut.kind = "returned"
  /\ Len(lsDir) = 3 /\ Len(lsOut.value) = 3
  /\ lsDir[1].mtime < lsDir[2].mtime /\ lsDir[2].mtime < lsDir[3].mtime
  /\ lsOut.value[1].modified = 3 /\ lsOut.value[3].modified = 1

\* The steps of an uploadAndLoadSave with autoLoad in which no step fails.
UploadSteps ==
  <<Step("disconnect", ""), Step("pkill", ""), Step("settle", ""), Step("rmlock", ""),
    Step("write", finalName), Step("launch", "default"), Step("poll", ""),
    Step("connect", "")>>

Uploading(p) == pr[p].op = "upload" /\ pr[p].pc # "idle"

\* C22: every write of uploadAndLoadSave puts the uploaded bytes under
\* default.zip of the save directory, whatever the original name; a call
\* with autoLoad that returns has taken, in this order and each once, the
\* steps stop server (disconnect, pkill, settle, lock removal), write,
\* launch with save "default", polling, connect; a call without autoLoad
\* that returns has written once and stopped, launched, probed and
\* connected nothing, and no step of it changes the service's client,
\* isConnected, the clients or the server process.
C22_UploadAndLoadSave ==
  [][\A p \in Procs :
       /\ (Uploading(p) /\ env'.written # env.written) =>
            env'.written = Append(env.written,
                                  [path |-> join("/factorio/saves", finalName),
                                   data |-> pr[p].upload.fileBuffer])
       /\ (Uploading(p) /\ pr[p].upload.autoLoad
             /\ pr'[p].pc = "idle" /\ pr'[p].out.kind = "return") =>
            /\ pr'[p].log = UploadSteps
            /\ pr'[p].lastProbe
            /\ svc'.isConnected /\ svc'.rconClient # 0
            /\ cl'[svc'.rconClient].state = "connected"
       /\ (Uploading(p) /\ ~pr[p].upload.autoLoad
             /\ pr'[p].pc = "idle" /\ pr'[p].out.kind = "return") =>
            /\ pr'[p].log = <<Step("write", finalName)>>
            /\ pr'[p].probes = 0 /\ pr'[p].connects = 0
       /\ ((Uploading(p) \/ pr'[p].op = "upload") /\ pr'[p].op = "upload"
             /\ ~pr'[p].upload.autoLoad /\ pr'[p] # pr[p]) =>
            /\ svc' = svc /\ cl' = cl
            /\ env'.alive = env.alive /\ env'.gen = env.gen /\ env'.pending = env.pending
            /\ env'.lock = env.lock]_vars

\* An upload named S.ZIP with autoLoad returned on a service that was
\* connected to a running server: the bytes are in default.zip and the
\* service is connected to the server launched after the write.
C22_Witness ==
  \E p \in Procs :
    /\ pr[p].op = "upload" /\ pr[p].pc = "idle" /\ pr[p].out.kind = "return"
    /\ pr[p].upload.autoLoad
    /\ pr[p].upload.originalName = <<"S", ".", "Z", "I", "P">>
    /\ pr[p].log = UploadSteps
    /\ env.written = <<[path |-> join("/factorio/saves", finalName), data |-> "B"]>>
    /\ env.gen = 2 /\ env.loaded = "default"
    /\ svc.isConnected /\ cl[svc.rconClient].gen = 2

\* The body bytes of a conforming packet: between the 12 header bytes and the
\* two closing NULs.
PeerBodyOf(reply) == SubSeq(reply, MinHeader + 1, Len(reply) - 2)

IsConforming(reply) ==
  /\ Len(reply) >= MinHeader + 2
  /\ ReadInt32LE(reply, 0) = Len(PeerBodyOf(reply)) + 10
  /\ reply[Len(reply) - 1] = 0 /\ reply[Len(reply)] = 0

\* C23: when a command was answered by a conforming packet, the text the
\* caller of executeCommand gets (details of the success result) is the body
\* of that packet, the empty body included.
C23_ExactBody ==
  \A c \in Calls :
    (rPc[c] = "done" /\ rResult[c] # <<>> /\ rResult[c][1].status = "success"
       /\ IsConforming(rHandler[c].responseBuffer)) =>
      rResult[c][1].details = Text(Utf8Decode(PeerBodyOf(rHandler[c].responseBuffer)))

\* C24: once the handler has called resolve or reject (packet completed,
\* parse failure, response timeout, socket error) its 'data' listener and its
\* 'error' listener are off the socket and its timer is cleared, so it
\* settles once.
C24_ListenersDetached ==
  (hResolves # <<>> \/ hRejects # <<>>) =>
    /\ ~hState.onData
    /\ ~hState.onError
    /\ ~hState.timer
    /\ Len(hResolves) + Len(hRejects) = 1

\* A parse failure: the handler rejected with PARSE_ERROR at the second
\* chunk, and holds no listener.
C24_Witness ==
  /\ Len(hRejects) = 1
  /\ hRejects[1].code = "PARSE_ERROR"
  /\ hChunks = 2
  /\ ~hState.onData /\ ~hState.onError /\ ~hState.timer

\* The size a reply declares, once its size field is there.
DeclaredSize(reply) == ReadInt32LE(reply, 0)

\* C25: a reply whose declared size is below 10 (an expected total length
\* under 14) is never resolved as a decoded packet, however its bytes are
\* split into chunks.
C25_ShortSizeNeverResolves ==
  (Len(hReply) >= SizeFieldLen /\ DeclaredSize(hReply) < 10) => hResolves = <<>>

\* The reply starts with a whole packet of a conforming size.
StartsWithPacket(reply) ==
  /\ Len(reply) >= SizeFieldLen
  /\ DeclaredSize(reply) >= 10
  /\ Len(reply) >= DeclaredSize(reply) + SizeFieldLen

\* The first packet of such a reply, as its fields.
FirstPacket(reply) ==
  [id |-> ReadInt32LE(reply, 4), type |-> ReadInt32LE(reply, 8),
   body |-> Utf8Decode(SubSeq(reply, MinHeader + 1, DeclaredSize(reply) + 2))]

\* C26: the handler is single-shot: when the reply starts with a whole
\* packet, the handler resolves at most once and with that first packet,
\* whatever bytes follow it in the same chunk or in later chunks, and once it
\* has resolved it listens no more.
C26_SingleShot ==
  StartsWithPacket(hReply) =>
    /\ Len(hResolves) <= 1
    /\ \A i \in 1..Len(hResolves) : hResolves[i] = FirstPacket(hReply)
    /\ hResolves # <<>> => (~hState.onData /\ hRejects = <<>>)

\* Two packets arrived, the bytes of the second partly in the chunk that
\* completed the first and partly later: the first one alone was resolved.
C26_Witness ==
  /\ hReply \in TrailedReplies
  /\ hWire = <<>>
  /\ Len(hState.responseBuffer) > hState.expectedSize
  /\ Len(hState.responseBuffer) < Len(hReply)
  /\ hResolves = <<FirstPacket(hReply)>>

Last(seq) == seq[Len(seq)]

\* C27: when loadSave starts the termination signal the service has let go
\* of its client and no client is connected; however the signal ends, the
\* call next waits the settle interval; however the lock removal ends, the
\* call next goes on to launch the server; neither ends the call.
C27_StoppingBestEffort ==
  [][\A p \in Procs :
       pr[p].op = "load" =>
         /\ (pr[p].pc # "pkill" /\ pr'[p].pc = "pkill") =>
              /\ svc'.rconClient = 0
              /\ \A k \in Clients : cl'[k].state # "connected"
              /\ Last(pr'[p].log) = Step("pkill", "")
              /\ pr'[p].log[Len(pr'[p].log) - 1] = Step("disconnect", "")
         /\ (pr[p].pc = "pkill" /\ pr'[p] # pr[p]) =>
              /\ pr'[p].pc = "settle"
              /\ pr'[p].delays = Append(pr[p].delays, SettleDelayMs)
         /\ (pr[p].pc = "settle" /\ pr'[p] # pr[p]) => pr'[p].pc = "rmlock"
         /\ (pr[p].pc = "rmlock" /\ pr'[p] # pr[p]) =>
              \/ pr'[p].pc = "launchDelay" /\ Last(pr'[p].log) = Step("launch", pr[p].arg)
              \/ pr'[p].pc = "which"
         /\ (pr[p].pc = "which" /\ pr'[p] # pr[p]) =>
              pr'[p].pc = "launching" /\ Last(pr'[p].log) = Step("launch", pr[p].arg)]_vars

\* The signal failed (the server it was meant for is still alive) and the
\* lock removal failed (the lock is still there), and the server has been
\* launched all the same.
C27_Witness ==
  \E p \in Procs :
    /\ pr[p].op = "load"
    /\ pr[p].pc = "launchDelay"
    /\ env.pending = "default"
    /\ env.alive
    /\ env.lock

\* No call has been made yet.
Untouched == \A p \in Procs : pr[p].ops = 0 /\ pr[p].pc = "idle"

\* C29: the life of the client: as long as no call has been made there is no
\* client; a client comes into being only in a step of an executeCommand or
\* a loadSave, and it is a new object (one that did not exist before the
\* step), also when the service held a client before; when the shutdown
\* call returns and when a loadSave starts the termination signal the
\* service holds no client.
C29_ClientLifecycle ==
  /\ [](Untouched => (svc.rconClient = 0 /\ \A k \in Clients : cl[k] = NoClient))
  /\ [][/\ \A k \in Clients :
             (cl'[k].state = "connecting" /\ cl[k] # cl'[k]) =>
               /\ cl[k] = NoClient
               /\ svc'.rconClient = k
               /\ \E p \in Procs : pr'[p].op \in {"exec", "load"} /\ pr'[p].my = k
        /\ \A p \in Procs :
             /\ (pr'[p].op = "disconnect" /\ pr'[p].pc = "idle" /\ pr'[p].ops # pr[p].ops)
                  => svc'.rconClient = 0
             /\ (pr'[p].op = "load" /\ pr[p].pc # "pkill" /\ pr'[p].pc = "pkill")
                  => svc'.rconClient = 0]_vars

\* A reconnect: the connect of a call failed, and the client of its retry,
\* a new one, is connecting while the service holds it.
C29_Witness ==
  \E p \in Procs :
    /\ pr[p].op = "exec"
    /\ pr[p].pc = "connecting"
    /\ pr[p].fails >= 1
    /\ svc.rconClient = pr[p].my
    /\ cl[pr[p].my].state = "connecting"

\* C30: when a loadSave returns its result the service holds a client, and
\* if that client is connected it is connected to the server process that
\* is running then, not to a process stopped before.
C30_ClientOfNewServer ==
  [][\A p \in Procs :
       (pr[p].op = "load" /\ pr[p].pc # "idle"
          /\ pr'[p].pc = "idle" /\ pr'[p].out.kind = "return") =>
         /\ svc'.rconClient # 0
         /\ cl'[svc'.rconClient].state = "connected" =>
              cl'[svc'.rconClient].gen = env'.gen]_vars

\* C31: a probe is throwaway: no step in which testConnection settles
\* changes isConnected; a probe after which the polling goes on (not ready,
\* attempts left) leaves rconClient and every client of the service as they
\* were, whether its connect failed or its end() failed; a probe made while
\* the service is connected leaves the service as it was; and a probe whose
\* connect resolved counts as ready.
C31_ThrowawayProbe ==
  [][\A p \in Procs : \A connected, ended \in BOOLEAN :
       ProbeDone(p, connected, ended) =>
         /\ svc'.isConnected = svc.isConnected
         /\ pr'[p].pc = "probeDelay" => (svc' = svc /\ cl' = cl)
         /\ (svc.isConnected /\ svc.rconClient # 0) => svc' = svc
         /\ connected => pr'[p].lastProbe]_vars

\* C31, the frame alone, without the last clause.
C31_ProbeFrame ==
  [][\A p \in Procs : \A connected, ended \in BOOLEAN :
       ProbeDone(p, connected, ended) =>
         /\ svc'.isConnected = svc.isConnected
         /\ pr'[p].pc = "probeDelay" => (svc' = svc /\ cl' = cl)
         /\ (svc.isConnected /\ svc.rconClient # 0) => svc' = svc]_vars

\* The clients that are connecting or connected.
OpenClients == {k \in Clients : cl[k].state \in {"connecting", "connected"}}

\* C32: with concurrent executeCommand calls at most one client is
\* connecting or connected at a time, every such client is the one the
\* service holds, and no step replaces a client that is connecting or
\* connected by another client.
C32_OneClient ==
  /\ [](Cardinality(OpenClients) <= 1 /\ OpenClients \subseteq {svc.rconClient})
  /\ [][(svc.rconClient \in OpenClients) => svc'.rconClient \in {svc.rconClient, 0}]_vars

\* C33: whenever isConnected is true the service holds a client, and that
\* client is one whose connect() resolved and that was not ended since.
C33_ConnectedHasClient ==
  svc.isConnected => (svc.rconClient # 0 /\ cl[svc.rconClient].state = "connected")

\* The waits after the first n failed attempts.
Waits(n) == [k \in 1..n |-> RetryDelayUnitMs * k]

\* C34: with a server that is down (every connect attempt fails) an
\* executeCommand call attempts a connect, and after the k-th failure waits
\* 1000 * k ms and attempts again as long as k < maxRetries; it gives up at
\* failure number max(1, maxRetries), without a wait after it and without
\* sending; and every such call ends.
C34_AllAttemptsFail ==
  /\ [](\A p \in Procs :
          (pr[p].op = "exec" /\ ~env.alive) =>
            /\ pr[p].sends = 0
            /\ pr[p].pc \in {"connecting", "retryDelay", "idle"}
            /\ pr[p].pc = "connecting" =>
                 /\ pr[p].connects = pr[p].fails + 1
                 /\ pr[p].connects <= Max(1, svc.maxRetries)
                 /\ pr[p].delays = Waits(pr[p].fails)
            /\ pr[p].pc = "retryDelay" =>
                 /\ pr[p].connects = pr[p].fails
                 /\ pr[p].fails < svc.maxRetries
                 /\ pr[p].delays = Waits(pr[p].fails)
            /\ pr[p].pc = "idle" =>
                 /\ pr[p].out.kind = "throw"
                 /\ pr[p].connects = Max(1, svc.maxRetries)
                 /\ pr[p].fails = Max(1, svc.maxRetries)
                 /\ pr[p].delays = Waits(Max(1, svc.maxRetries) - 1))
  /\ \A p \in Procs :
       (pr[p].op = "exec" /\ ~env.alive /\ pr[p].pc # "idle") ~> (pr[p].pc = "idle")

\* With maxRetries = 3 and the server down a call gave up after three
\* attempts and waits of 1000 and 2000 ms, while another call, with one
\* failure behind it, waits.
C34_Witness ==
  /\ ~env.alive
  /\ svc.maxRetries = DefaultMaxRetries
  /\ \E p, q \in Procs :
       /\ pr[p].op = "exec" /\ pr[p].pc = "idle" /\ pr[p].out.kind = "throw"
       /\ pr[p].connects = 3 /\ pr[p].fails = 3
       /\ pr[p].delays = <<RetryDelayUnitMs, 2 * RetryDelayUnitMs>>
       /\ pr[q].op = "exec" /\ pr[q].pc = "retryDelay" /\ pr[q].fails = 1

\* The number of times the handler called resolve or reject.
Settlements == Len(hResolves) + Len(hRejects)

\* C35: the handler settles its promise exactly once: resolve and reject are
\* called at most once between them, the response timer is running exactly
\* as long as the started handler has called neither (so nothing is called
\* after the timer's expiry), and a started handler does call one of them.
C35_SettlesOnce ==
  /\ [](Settlements <= 1)
  /\ [](hState.timer <=> (hState.started /\ Settlements = 0))
  /\ hState.started ~> (Settlements = 1)

\* After a first chunk that did not complete the reply the socket failed:
\* the handler rejected once with the socket's error, its timer is cleared
\* and bytes of the reply are still to come.
C35_Witness ==
  /\ hChunks >= 1
  /\ hResolves = <<>>
  /\ hRejects = <<PlainError("ECONNRESET")>>
  /\ ~hState.timer
  /\ hWire # <<>>

\* What there is of the socket of call c.
SocketOf(c) == <<rWire[c], rWritten[c], rHandler[c], rDestroyed[c]>>

\* C36: when executeCommand has settled, however it went, the socket of the
\* call is destroyed, and it is destroyed only then; each call has a socket
\* of its own: no step of one call writes to, reads from, listens on or
\* destroys the socket of another.
C36_SocketPerCall ==
  /\ [](\A c \in Calls : rDestroyed[c] <=> rPc[c] = "done")
  /\ [][\A c, d \in Calls :
          (c # d /\ rPc'[c] # rPc[c]) => SocketOf(d)' = SocketOf(d)]_vars
  /\ [][\A c, d \in Calls :
          (SocketOf(c)' # SocketOf(c) /\ SocketOf(d)' # SocketOf(d)) => c = d]_vars

\* Two calls have settled, one with the command's result and one with a
\* response timeout, and the socket of each is destroyed.
C36_Witness ==
  \E c, d \in Calls :
    /\ rPc[c] = "done" /\ rFailPhase[c] = "none" /\ rResult[c] # <<>>
    /\ rResult[c][1].status = "success"
    /\ rPc[d] = "done" /\ rFailPhase[d] \in {"auth", "command"}
    /\ rResult[d] # <<>> /\ rResult[d][1].message = "RCON response timeout"
    /\ rDestroyed[c] /\ rDestroyed[d]

\* The values of the attempts parameter the two implementations are
\* compared on.
AttemptsRange == 0..(DefaultMaxRetries + 1)

MessageOf(c) == rResult[c][1].message

\* C38: the error reported depends on the step that was waiting: a socket
\* error during the wait for the authentication reply is returned as 'RCON
\* authentication failed' with the socket's message as details, the same
\* error during the wait for the command's reply as 'RCON execution error',
\* and the response timer's expiry in either wait as 'RCON response timeout'.
C38_ErrorByPhase ==
  [][\A c \in Calls :
       /\ \A e \in SocketErrors :
            RSocketError(c, e) =>
              /\ rPc'[c] = "done" /\ rResult'[c] # <<>>
              /\ rResult'[c][1].status = "error"
              /\ rPc[c] = "authWait" =>
                   /\ rResult'[c][1].message = "RCON authentication failed"
                   /\ rResult'[c][1].details = Lit(e)
              /\ rPc[c] = "cmdWait" =>
                   /\ rResult'[c][1].message = "RCON execution error"
                   /\ rResult'[c][1].details = Lit(e)
       /\ RTimeout(c) =>
            /\ rPc'[c] = "done" /\ rResult'[c] # <<>>
            /\ rResult'[c][1].status = "error"
            /\ rResult'[c][1].message = "RCON response timeout"]_vars

\* The same socket error ended two calls, one during authentication and one
\* during the command, and they report different messages.
C38_Witness ==
  \E c, d \in Calls :
    /\ rPc[c] = "done" /\ rFailPhase[c] = "auth"
    /\ rCaught[c] = <<RconAuthenticationError("ECONNRESET")>>
    /\ MessageOf(c) = "RCON authentication failed"
    /\ rPc[d] = "done" /\ rFailPhase[d] = "command"
    /\ rCaught[d] = <<PlainError("ECONNRESET")>>
    /\ MessageOf(d) = "RCON execution error"

\* The reply declares a size of -4 or less: an expected total length that is
\* not positive.
DeclaresNoLength(reply) == Len(reply) >= SizeFieldLen /\ DeclaredSize(reply) <= -4

\* C39: when the first four bytes declare a size of -4 or less the handler
\* never decodes, however much more arrives: its expected size is never
\* positive, it calls neither resolve nor reject with a parse error, with
\* the whole reply delivered it still listens with its timer running, and
\* what ends the request is the timer or a socket error.
C39_NoDecodeWithoutLength ==
  DeclaresNoLength(hReply) =>
    /\ hState.expectedSize <= 0
    /\ hResolves = <<>>
    /\ \A i \in 1..Len(hRejects) :
         hRejects[i] \in {RconTimeoutError("response")}
                           \cup {PlainError(e) : e \in SocketErrors}
    /\ (hState.started /\ hRejects = <<>>) =>
         (hState.timer /\ hState.onData /\ hState.onError)

\* A reply of 14 bytes declaring the size -5 was delivered whole in several
\* chunks, and the request was ended by the timer.
C39_Witness ==
  /\ DeclaredSize(hReply) < -4
  /\ Len(hReply) = 14
  /\ hWire = <<>>
  /\ hChunks >= 3
  /\ hState.expectedSize = -1
  /\ hRejects = <<RconTimeoutError("response")>>

\* The most probes start_http_server makes.
MaxProbes == ProbeBudgetS \div ProbeSleepS

\* C40, the start: the HTTP process is launched only after a probe of the
\* port succeeded; there are at most 30 probes, with one sleep of 2 seconds
\* between a probe and the next; exit status 1 is the end of 30 probes that
\* all failed, with no HTTP process launched; and when the time is used up
\* the script has exited with status 1.
C40_Probing ==
  /\ sh.http # "none" => sh.ready
  /\ sh.probes <= MaxProbes
  /\ sh.probes > 0 => sh.timeout = ProbeBudgetS - ProbeSleepS * sh.sleeps
  /\ sh.probes \in {sh.sleeps, sh.sleeps + 1}
  /\ sh.pc = "probe" => sh.probes = sh.sleeps
  /\ sh.pc = "sleep2" => sh.probes = sh.sleeps + 1
  /\ sh.status = 1 =>
       (sh.probes = MaxProbes /\ ~sh.ready /\ sh.http = "none" /\ ~sh.trapped)
  /\ (sh.sleeps = MaxProbes /\ ~sh.trapped) => (sh.pc = "exited" /\ sh.status = 1)

\* C40, the signal: when the handler has run its kills, the HTTP process
\* was signalled before the game server and no child that was started is
\* left running without the signal; and the script exits with status 0
\* from the handler only when the game server has exited or was never
\* started.
C40_Shutdown ==
  sh.trapped =>
    /\ sh.http # "running"
    /\ sh.game # "running"
    /\ sh.kills \in {<<>>, <<"game">>, <<"http", "game">>}
    /\ sh.pc = "exited" => (sh.status = 0 /\ sh.game \in {"none", "exited"})

\* C40: the startup script launches the HTTP process only after a probe
\* succeeded, probes at most 30 times 2 seconds apart, exits with status 1
\* without launching it when no probe succeeds, and on SIGTERM or SIGINT
\* signals the HTTP process, then the game server, and waits for the game
\* server before it exits with status 0.
C40_StartupScript == C40_Probing /\ C40_Shutdown

====
